---- MODULE Spec2Model ----
(***************************************************************************)
(* Jotoba search core: the generic SearchTask of engine_v2, and the tag    *)
(* extractor of the query parser.                                          *)
(*                                                                         *)
(* Similarities are cosine similarities of small integer vectors.  They    *)
(* are kept as exact fractions (dot, |q|^2, |d|^2) and compared by        *)
(* squaring, so "sim <= threshold" and "(sim * 100) as usize" are exact;   *)
(* f32 rounding noise is not modelled.  Thresholds are in hundredths.      *)
(***************************************************************************)
EXTENDS Integers, Sequences, FiniteSets, TLC

\* ------------------------------------------------------------------ bounds
MaxQueries == 2
MaxLimit == 2
MaxOffset == 2
MaxPieces == 4
MaxTail == 3
MaxLoads == 2
MaxSequences == 3

\* ------------------------------------------------------- program constants
DefaultThreshold == 20
DefaultLimit == 1000
VectorLimit == 100000
MAX_RESULTS == 10
MaxQueryLen == 37

VARIABLES
    \* SearchTask fields
    queries, vec_filter, res_filter, order, threshold, limit, offset,
    \* the static indexes the engine resolves (which world the process loaded)
    world,
    \* what the last call on the task returned
    found, has_term_res,
    \* tag extraction: the input bytes, the parse closure, the result of
    \* extract_parse on the input and of extract_parse on that result's text
    tag_inp, parse_mode, tag_out, tag_out2,
    \* tag parsers: the token, and what parse_jlpt_tag, parse_genki_tag and
    \* parse returned for it
    token, jlpt_res, genki_res, parse_res,
    \* suggestions: the registry cell, the number of load_suggestions calls
    \* made, the directory the first of them read, and the requests by id
    SUGGESTIONS, loads, first_sources, req,
    \* load_words: the sequences asked for, where the call is, the state of
    \* each lookup, the order the lookups finished in, and what was returned
    lw_sequences, lw_pc, lw_results, lw_completed, lw_out,
    \* the native word search: INDEX, the fields of Find, whether the vector
    \* store answers, and what find returned
    nf_index, nf_query, nf_limit, nf_offset, nf_store_ok, nf_found,
    \* kun readings: whether the build has the tokenizer feature, the
    \* dict_cache of update_kun_links, and the calls made with what they
    \* returned: kun_matches_kanji, get_kun_by_literal, the sort closure
    has_tokenizer, dict_cache, km, gk, kc,
    \* kanji cache: the kanji table, KANJICACHE_C (id -> row) and the task
    \* that holds its lock (0: free), the lookup of each task, the last two
    \* lookups that returned, the lookups started and the updates made
    kanji_db, kanji_cache, kanji_lock, kanji_look, done_log, lookups, updates

taskVars == <<queries, vec_filter, res_filter, order, threshold, limit, offset>>
searchVars == <<queries, vec_filter, res_filter, order, threshold, limit, offset,
                world, found, has_term_res>>
tagVars == <<tag_inp, parse_mode, tag_out, tag_out2>>
parserVars == <<token, jlpt_res, genki_res, parse_res>>

suggestVars == <<SUGGESTIONS, loads, first_sources, req>>
wordsVars == <<lw_sequences, lw_pc, lw_results, lw_completed, lw_out>>
nativeVars == <<nf_index, nf_query, nf_limit, nf_offset, nf_store_ok, nf_found>>
kunVars == <<has_tokenizer, dict_cache, km, gk, kc>>
kanjiVars == <<kanji_db, kanji_cache, kanji_lock, kanji_look, done_log, lookups, updates>>

\* what the actions of one part leave alone
notSearchVars == <<tagVars, parserVars, suggestVars, wordsVars, nativeVars, kunVars, kanjiVars>>
notTagVars == <<searchVars, parserVars, suggestVars, wordsVars, nativeVars, kunVars, kanjiVars>>
notParserVars == <<searchVars, tagVars, suggestVars, wordsVars, nativeVars, kunVars, kanjiVars>>
notSuggestVars == <<searchVars, tagVars, parserVars, wordsVars, nativeVars, kunVars, kanjiVars>>
notWordsVars == <<searchVars, tagVars, parserVars, suggestVars, nativeVars, kunVars, kanjiVars>>
notNativeVars == <<searchVars, tagVars, parserVars, suggestVars, wordsVars, kunVars, kanjiVars>>
notKunVars == <<searchVars, tagVars, parserVars, suggestVars, wordsVars, nativeVars, kanjiVars>>
notKanjiVars == <<searchVars, tagVars, parserVars, suggestVars, wordsVars, nativeVars, kunVars>>

\* ------------------------------------------------------------ small helpers
Min(a, b) == IF a < b THEN a ELSE b

Range(s) == {s[i] : i \in 1..Len(s)}

RECURSIVE Flatten(_)
Flatten(ss) == IF ss = <<>> THEN <<>> ELSE Head(ss) \o Flatten(Tail(ss))

RECURSIVE SelectSeqBy(_, _)
\* the subsequence of s at the positions in keep (order preserved)
SelectSeqBy(s, keep) ==
    IF s = <<>> THEN <<>>
    ELSE LET n == Len(s)
             front == SelectSeqBy(SubSeq(s, 1, n - 1), keep)
         IN  IF n \in keep THEN Append(front, s[n]) ELSE front

\* --------------------------------------------------- the engine (trait T)
NoLang == "None"
Languages == {NoLang, "en"}
QueryStrings == {"a", "ab"}
Thresholds == {DefaultThreshold, 80}
Worlds == {1, 2}

Doc(id, vec, some, outs) == [id |-> id, vec |-> vec, some |-> some, outs |-> outs]

\* T::get_index: the index of a language in a world, loaded or not.
\* terms: the indexer's vocabulary (term -> dimension); docs: the vector
\* store; some / outs of a document: what doc_to_output finds for it.
get_index(w, lang) ==
    IF w = 1 THEN
        IF lang = NoLang THEN
            [loaded |-> TRUE, terms |-> [t \in {"a", "b"} |-> IF t = "a" THEN 1 ELSE 2],
             docs |-> << Doc(1, <<1, 0>>, TRUE, <<1>>),
                         Doc(2, <<3, 4>>, TRUE, <<2>>),
                         Doc(3, <<1, 1>>, TRUE, <<3>>),
                         Doc(4, <<4, 3>>, TRUE, <<2, 4>>) >>]
        ELSE
            [loaded |-> TRUE, terms |-> [t \in {"b"} |-> 2],
             docs |-> << Doc(5, <<1, 1>>, TRUE, <<1, 5>>),
                         Doc(6, <<0, 1>>, FALSE, <<>>),
                         Doc(7, <<4, 3>>, TRUE, <<3>>) >>]
    ELSE
        IF lang = NoLang THEN
            [loaded |-> TRUE, terms |-> [t \in {"a"} |-> 1],
             docs |-> << Doc(1, <<1, 0>>, TRUE, <<1>>) >>]
        ELSE
            [loaded |-> FALSE, terms |-> <<>>, docs |-> <<>>]

\* T::align_query: the engine's corrected query string, if it has one
align_query(q, w, lang) ==
    IF w = 2 /\ lang = NoLang /\ q = "ab" THEN [some |-> TRUE, q |-> "a"]
    ELSE [some |-> FALSE, q |-> q]

\* the terms a query string is split into before its vector is built
QueryTerms(q) == IF q = "ab" THEN {"ab", "a", "b"} ELSE {q}

\* T::gen_query_vector: None when no term of the query is in the vocabulary
gen_query_vector(index, q) ==
    LET known == QueryTerms(q) \cap DOMAIN index.terms
        dims == {index.terms[t] : t \in known}
    IN  IF known = {} THEN [some |-> FALSE, vec |-> <<0, 0>>]
        ELSE [some |-> TRUE, vec |-> [d \in 1..2 |-> IF d \in dims THEN 1 ELSE 0]]

\* T::doc_to_output: None, or the outputs of a document
doc_to_output(doc) == [some |-> doc.some, outs |-> doc.outs]

\* ------------------------------------------------------------- similarity
Dot(u, v) == u[1] * v[1] + u[2] * v[2]

\* DocumentVector::similarity, as the exact fraction dot / sqrt(nq * nd)
similarity(dvec, qvec) ==
    [dot |-> Dot(dvec, qvec), nq |-> Dot(qvec, qvec), nd |-> Dot(dvec, dvec)]

\* sim <= t / 100
SimLeq(sim, t) == 10000 * sim.dot * sim.dot <= t * t * sim.nq * sim.nd

RECURSIVE FloorSearch(_, _, _, _)
\* the greatest k in lo..hi with k * k * D <= N (k = lo satisfies it)
FloorSearch(lo, hi, N, D) ==
    IF lo = hi THEN lo
    ELSE LET mid == (lo + hi + 1) \div 2
         IN  IF mid * mid * D <= N THEN FloorSearch(mid, hi, N, D)
             ELSE FloorSearch(lo, mid - 1, N, D)

\* (sim * 100f32) as usize : truncation, the greatest k with k <= 100 * sim
TruncScore(sim) ==
    FloorSearch(0, 100, 10000 * sim.dot * sim.dot, sim.nq * sim.nd)

\* round(sim * 100) : nearest integer
RoundScore(sim) ==
    CHOOSE k \in 0..100 :
        /\ (2 * k - 1) * (2 * k - 1) * sim.nq * sim.nd <= 40000 * sim.dot * sim.dot
           \/ k = 0
        /\ (2 * k + 1) * (2 * k + 1) * sim.nq * sim.nd > 40000 * sim.dot * sim.dot

\* ------------------------------------------------ closures set on the task
\* "none" is Option::None; vec_filter "not_doc_3", res_filter "not_out_4" and
\* order "custom" are each one closure of that signature.

\* the custom order closure: a score from (output, similarity, query, language)
CustomOrder(item, sim, q, lang) ==
    10 * item + (IF q = "a" THEN 3 ELSE 0) + (IF lang = NoLang THEN 0 ELSE 1)
      + (IF SimLeq(sim, 75) THEN 0 ELSE 40)

\* ------------------------------------------------------------- SearchTask
\* the task as a value, for the operators below
Task ==
    [queries |-> queries, vec_filter |-> vec_filter, res_filter |-> res_filter,
     order |-> order, threshold |-> threshold, limit |-> limit, offset |-> offset]

\* SearchTask::default, with the one query that new / with_language pushes
NewTask(q, lang) ==
    [queries |-> << [q |-> q, lang |-> lang] >>, vec_filter |-> "none",
     res_filter |-> "none", order |-> "none", threshold |-> DefaultThreshold,
     limit |-> DefaultLimit, offset |-> 0]

filter_vector(t, doc) == IF t.vec_filter = "none" THEN TRUE ELSE doc.id # 3

filter_result(t, out) == IF t.res_filter = "none" THEN TRUE ELSE out # 4

\* mutant: the default score is similarity * 1000
calculate_score_permille(t, item, rel, q, lang) ==
    IF t.order # "none" THEN CustomOrder(item, rel, q, lang)
    ELSE CHOOSE k \in 0..1000 :
             /\ k * k * rel.nq * rel.nd <= 1000000 * rel.dot * rel.dot
             /\ (k + 1) * (k + 1) * rel.nq * rel.nd > 1000000 * rel.dot * rel.dot

\* mutant: the default score rounds to the nearest integer
calculate_score_round(t, item, rel, q, lang) ==
    IF t.order # "none" THEN CustomOrder(item, rel, q, lang) ELSE RoundScore(rel)

calculate_score(t, item, rel, q, lang) ==
    IF t.order # "none" THEN CustomOrder(item, rel, q, lang) ELSE TruncScore(rel)

ResultItem(item, relevance, lang) ==
    [item |-> item, relevance |-> relevance, language |-> lang]

\* mutant: the threshold test is "similarity < threshold"
ItemsOfDoc_lt(t, doc, qvec, q, lang) ==
    LET sim == similarity(doc.vec, qvec)
        o == doc_to_output(doc)
        kept == SelectSeqBy(o.outs, {i \in 1..Len(o.outs) : filter_result(t, o.outs[i])})
    IN  IF ~filter_vector(t, doc) THEN <<>>
        ELSE IF SimLeq(sim, t.threshold) /\ ~SimLeq(sim, t.threshold - 1) THEN
            [i \in 1..Len(kept) |->
                ResultItem(kept[i], calculate_score(t, kept[i], sim, q, lang), lang)]
        ELSE IF SimLeq(sim, t.threshold) THEN <<>>
        ELSE IF ~o.some THEN <<>>
        ELSE [i \in 1..Len(kept) |->
                 ResultItem(kept[i], calculate_score(t, kept[i], sim, q, lang), lang)]

\* the items one document contributes: none when a filter or the threshold
\* rejects it or it has no output, else one item per output the result
\* filter lets through
ItemsOfDoc(t, doc, qvec, q, lang) ==
    LET sim == similarity(doc.vec, qvec)
        o == doc_to_output(doc)
        kept == SelectSeqBy(o.outs, {i \in 1..Len(o.outs) : filter_result(t, o.outs[i])})
    IN  IF ~filter_vector(t, doc) THEN <<>>
        ELSE IF SimLeq(sim, t.threshold) THEN <<>>
        ELSE IF ~o.some THEN <<>>
        ELSE [i \in 1..Len(kept) |->
                 ResultItem(kept[i], calculate_score(t, kept[i], sim, q, lang), lang)]

result_from_doc_vectors(t, docs, qvec, q, lang) ==
    [ok |-> TRUE, err |-> "",
     items |-> Flatten([i \in 1..Len(docs) |-> ItemsOfDoc(t, docs[i], qvec, q, lang)])]

\* VectorStore::get_all_iter: the documents sharing a dimension with the query
get_all_iter(index, qvec) ==
    SelectSeqBy(index.docs,
                {i \in 1..Len(index.docs) :
                    \E d \in 1..2 : qvec[d] # 0 /\ index.docs[i].vec[d] # 0})

Take(s, n) == SubSeq(s, 1, Min(n, Len(s)))

find_by_vec(t, w, qvec, q, lang) ==
    LET index == get_index(w, lang)
    IN  IF ~index.loaded THEN [ok |-> FALSE, err |-> "Unexpected", items |-> <<>>]
        ELSE result_from_doc_vectors(t, Take(get_all_iter(index, qvec), VectorLimit),
                                     qvec, q, lang)

\* mutant: a query without a vector is unwrapped instead of skipped
get_queries_unwrap(t, w, i) ==
    LET pair == t.queries[i]
        index == get_index(w, pair.lang)
        al == align_query(pair.q, w, pair.lang)
        aligned == IF al.some THEN al.q ELSE pair.q
        v == gen_query_vector(index, aligned)
    IN  IF ~index.loaded \/ ~v.some
        THEN [kind |-> "panic", q |-> pair.q, vec |-> <<0, 0>>, lang |-> pair.lang]
        ELSE [kind |-> "query", q |-> aligned, vec |-> v.vec, lang |-> pair.lang]

\* one step of the get_queries iterator: panics on an index that is not loaded
\* (expect), yields nothing when no vector can be built, else the aligned
\* query, its vector and the language
get_queries(t, w, i) ==
    LET pair == t.queries[i]
        index == get_index(w, pair.lang)
        al == align_query(pair.q, w, pair.lang)
        aligned == IF al.some THEN al.q ELSE pair.q
        v == gen_query_vector(index, aligned)
    IN  IF ~index.loaded THEN [kind |-> "panic", q |-> pair.q, vec |-> <<0, 0>>, lang |-> pair.lang]
        ELSE IF ~v.some THEN [kind |-> "skip", q |-> aligned, vec |-> <<0, 0>>, lang |-> pair.lang]
        ELSE [kind |-> "query", q |-> aligned, vec |-> v.vec, lang |-> pair.lang]

RECURSIVE Collect(_, _, _, _)
\* get_queries().map(find_by_vec).collect::<Result<Vec<_>, Error>>() from
\* pair i on, with acc the vectors of items collected so far
Collect(t, w, i, acc) ==
    IF i > Len(t.queries) THEN [kind |-> "ok", err |-> "", lists |-> acc]
    ELSE LET g == get_queries(t, w, i)
         IN  IF g.kind = "panic" THEN [kind |-> "panic", err |-> "", lists |-> <<>>]
             ELSE IF g.kind = "skip" THEN Collect(t, w, i + 1, acc)
             ELSE LET r == find_by_vec(t, w, g.vec, g.q, g.lang)
                  IN  IF ~r.ok THEN [kind |-> "err", err |-> r.err, lists |-> <<>>]
                      ELSE Collect(t, w, i + 1, Append(acc, r.items))

\* mutant: the last occurrence of each item is kept
unique_by_item_last(s) ==
    SelectSeqBy(s, {i \in 1..Len(s) : \A j \in (i + 1)..Len(s) : s[j].item # s[i].item})

\* itertools unique_by(|a| a.item): the first occurrence of each item is kept
unique_by_item(s) ==
    SelectSeqBy(s, {i \in 1..Len(s) : \A j \in 1..(i - 1) : s[j].item # s[i].item})

\* the deduplicated candidates of the task, in the order find() collects them
Candidates(t, w) == unique_by_item(Flatten(Collect(t, w, 1, <<>>).lists))

RECURSIVE Drains(_)
\* BinaryHeap popped until empty: always a greatest element (Ord of ResultItem
\* compares relevance); the order among equal relevances is the heap's
Drains(S) ==
    IF S = {} THEN {<<>>}
    ELSE UNION {{<<x>> \o r : r \in Drains(S \ {x})} :
                   x \in {y \in S : \A z \in S : z.relevance <= y.relevance}}

\* SearchResult::from_binary_heap: the drained heap cut to offset and limit,
\* with the number of items before the cut
from_binary_heap(heap, off, lim) ==
    {[items |-> SubSeq(r, off + 1, Min(off + lim, Len(r))), total_items |-> Len(r)] :
        r \in Drains(heap)}

NotRun == [kind |-> "not_run"]

\* mutant: offset and limit handed over in the wrong order
find_swapped(t, w) ==
    LET c == Collect(t, w, 1, <<>>)
        items == unique_by_item(Flatten(c.lists))
    IN  IF c.kind = "panic" THEN {[kind |-> "panic"]}
        ELSE IF c.kind = "err" THEN {[kind |-> "err", err |-> c.err]}
        ELSE {[kind |-> "ok", items |-> r.items, total_items |-> r.total_items] :
                 r \in from_binary_heap(Range(items), t.limit, t.offset)}

\* SearchTask::find: every result the call can return
find(t, w) ==
    LET c == Collect(t, w, 1, <<>>)
        items == unique_by_item(Flatten(c.lists))
    IN  IF c.kind = "panic" THEN {[kind |-> "panic"]}
        ELSE IF c.kind = "err" THEN {[kind |-> "err", err |-> c.err]}
        ELSE {[kind |-> "ok", items |-> r.items, total_items |-> r.total_items] :
                 r \in from_binary_heap(Range(items), t.offset, t.limit)}

\* mutant: every pair must have the term
has_term_all(t, w) ==
    \A i \in 1..Len(t.queries) :
        LET index == get_index(w, t.queries[i].lang)
        IN  IF index.loaded THEN t.queries[i].q \in DOMAIN index.terms ELSE FALSE

\* SearchTask::has_term
has_term(t, w) ==
    \E i \in 1..Len(t.queries) :
        LET index == get_index(w, t.queries[i].lang)
        IN  IF index.loaded THEN t.queries[i].q \in DOMAIN index.terms ELSE FALSE

\* ----------------------------------------------------------------- actions
Building == found = NotRun /\ has_term_res = "not_called"

SearchInit ==
    /\ \E q \in QueryStrings, lang \in Languages :
           LET t == NewTask(q, lang)
           IN  /\ queries = t.queries
               /\ vec_filter = t.vec_filter
               /\ res_filter = t.res_filter
               /\ order = t.order
               /\ threshold = t.threshold
               /\ limit = t.limit
               /\ offset = t.offset
    /\ world \in Worlds
    /\ found = NotRun
    /\ has_term_res = "not_called"

AddLanguageQuery(q, lang) ==
    /\ Building
    /\ Len(queries) < MaxQueries
    /\ queries' = Append(queries, [q |-> q, lang |-> lang])
    /\ UNCHANGED <<vec_filter, res_filter, order, threshold, limit, offset, world,
                   found, has_term_res, notSearchVars>>

AddQuery(q) ==
    /\ Building
    /\ Len(queries) < MaxQueries
    /\ queries' = Append(queries, [q |-> q, lang |-> NoLang])
    /\ UNCHANGED <<vec_filter, res_filter, order, threshold, limit, offset, world,
                   found, has_term_res, notSearchVars>>

Limit(total_limit) ==
    /\ Building
    /\ limit' = total_limit
    /\ UNCHANGED <<queries, vec_filter, res_filter, order, threshold, offset, world,
                   found, has_term_res, notSearchVars>>

Threshold(th) ==
    /\ Building
    /\ threshold' = th
    /\ UNCHANGED <<queries, vec_filter, res_filter, order, limit, offset, world,
                   found, has_term_res, notSearchVars>>

Offset(off) ==
    /\ Building
    /\ offset' = off
    /\ UNCHANGED <<queries, vec_filter, res_filter, order, threshold, limit, world,
                   found, has_term_res, notSearchVars>>

SetVectorFilter ==
    /\ Building
    /\ vec_filter' = "not_doc_3"
    /\ UNCHANGED <<queries, res_filter, order, threshold, limit, offset, world,
                   found, has_term_res, notSearchVars>>

SetResultFilter ==
    /\ Building
    /\ res_filter' = "not_out_4"
    /\ UNCHANGED <<queries, vec_filter, order, threshold, limit, offset, world,
                   found, has_term_res, notSearchVars>>

SetOrderFn ==
    /\ Building
    /\ order' = "custom"
    /\ UNCHANGED <<queries, vec_filter, res_filter, threshold, limit, offset, world,
                   found, has_term_res, notSearchVars>>

Find ==
    /\ Building
    /\ found' \in find(Task, world)
    /\ UNCHANGED <<taskVars, world, has_term_res, notSearchVars>>

HasTerm ==
    /\ Building
    /\ has_term_res' = IF has_term(Task, world) THEN "true" ELSE "false"
    /\ UNCHANGED <<taskVars, world, found, notSearchVars>>

SearchNext ==
    \/ \E q \in QueryStrings, lang \in Languages \ {NoLang} : AddLanguageQuery(q, lang)
    \/ \E q \in QueryStrings : AddQuery(q)
    \/ \E n \in 0..MaxLimit : Limit(n)
    \/ \E th \in Thresholds : Threshold(th)
    \/ \E off \in 0..MaxOffset : Offset(off)
    \/ SetVectorFilter
    \/ SetResultFilter
    \/ SetOrderFn
    \/ Find
    \/ HasTerm

vars == <<searchVars, tagVars, parserVars, suggestVars, wordsVars, nativeVars, kunVars, kanjiVars>>

\* ------------------------------------------------------------ tag parser
\* Strings are sequences of UTF-8 bytes; byte offsets are 0-based as in the
\* source, sequence positions 1-based.  "C3" "A9" is one two-byte character.
ContinuationBytes == {"A9"}
Digits == {"0", "1", "2", "3", "4", "5", "6", "7", "8", "9"}
TagClass == {"a", "e", "g", "i", "k", "n", "N", "-"} \cup Digits

Pieces ==
    { <<"#", "n", "4">>, <<"#">>, <<"n", "4">>, <<" ">>, <<".">>, <<"C3", "A9">> }

RECURSIVE PieceSeqs(_)
\* the inputs: up to n pieces, concatenated
PieceSeqs(n) ==
    IF n = 0 THEN {<<>>}
    ELSE PieceSeqs(n - 1) \cup {s \o p : s \in PieceSeqs(n - 1), p \in Pieces}

\* str::len
StrLen(str) == Len(str)

\* str::is_char_boundary
is_char_boundary(str, i) ==
    \/ i = 0
    \/ i = Len(str)
    \/ i < Len(str) /\ str[i + 1] \notin ContinuationBytes

RECURSIVE TokenEnd(_, _)
\* the end (exclusive byte offset) of the TAG_REGEX match starting at a '#'
\* whose class characters reach up to offset e so far
TokenEnd(inp, e) ==
    IF e < Len(inp) /\ inp[e + 1] \in TagClass THEN TokenEnd(inp, e + 1) ELSE e

\* TAG_REGEX.find_iter: the matches of #[a-zA-Z0-9\-]*, left to right
find_iter(inp) ==
    LET starts == {i \in 0..(Len(inp) - 1) : inp[i + 1] = "#"}
        at == SelectSeqBy([i \in 1..Len(inp) |-> i - 1], {i + 1 : i \in starts})
    IN  [k \in 1..Len(at) |-> [start |-> at[k], end |-> TokenEnd(inp, at[k] + 1)]]

RECURSIVE DecimalValue(_)
DecimalValue(ds) ==
    IF ds = <<>> THEN 0
    ELSE 10 * DecimalValue(SubSeq(ds, 1, Len(ds) - 1))
           + (CHOOSE v \in 0..9 : <<"0", "1", "2", "3", "4", "5", "6", "7", "8", "9">>[v + 1]
                                     = ds[Len(ds)])

\* str::parse::<u8>() on bytes of the tag class: -1 for Err
ParseU8(ds) ==
    IF ds = <<>> \/ \E i \in 1..Len(ds) : ds[i] \notin Digits THEN -1
    ELSE IF DecimalValue(ds) > 255 THEN -1
    ELSE DecimalValue(ds)

NoTag == [tag |-> "None", nr |-> 0]

\* mutant: level 6 is accepted
parse_jlpt_tag_upto6(tok) ==
    IF Len(tok) < 2 THEN NoTag
    ELSE IF tok[2] \notin {"n", "N"} THEN NoTag
    ELSE LET nr == ParseU8(SubSeq(tok, 3, Len(tok)))
         IN  IF nr > 0 /\ nr <= 6 THEN [tag |-> "Jlpt", nr |-> nr] ELSE NoTag

parse_jlpt_tag(tok) ==
    IF Len(tok) < 2 THEN NoTag
    ELSE IF tok[2] \notin {"n", "N"} THEN NoTag
    ELSE LET nr == ParseU8(SubSeq(tok, 3, Len(tok)))
         IN  IF nr > 0 /\ nr < 6 THEN [tag |-> "Jlpt", nr |-> nr] ELSE NoTag

\* char::to_lowercase on the bytes of a token
LowerOf(c) ==
    CASE c = "E" -> "e" [] c = "G" -> "g" [] c = "I" -> "i" [] c = "K" -> "k"
      [] c = "N" -> "n" [] OTHER -> c

\* str::to_lowercase
to_lowercase(str) == [i \in 1..Len(str) |-> LowerOf(str[i])]

\* str::starts_with
starts_with(str, prefix) ==
    Len(str) >= Len(prefix) /\ SubSeq(str, 1, Len(prefix)) = prefix

RECURSIVE trim(_)
\* str::trim
trim(str) ==
    IF str # <<>> /\ str[1] = " " THEN trim(Tail(str))
    ELSE IF str # <<>> /\ str[Len(str)] = " " THEN trim(SubSeq(str, 1, Len(str) - 1))
    ELSE str

\* mutant: lesson 2 is accepted
parse_genki_tag_from2(tok) ==
    IF ~starts_with(trim(tok), <<"#">>) THEN NoTag
    ELSE IF ~starts_with(to_lowercase(trim(Tail(trim(tok)))), <<"g", "e", "n", "k", "i">>) THEN NoTag
    ELSE LET nr == ParseU8(SubSeq(tok, 7, Len(tok)))
         IN  IF nr >= 2 /\ nr <= 23 THEN [tag |-> "GenkiLesson", nr |-> nr] ELSE NoTag

\* parse_genki_tag: s[6..] is in range, since a string that starts with #
\* and then genki has at least six bytes
parse_genki_tag(tok) ==
    IF ~starts_with(trim(tok), <<"#">>) THEN NoTag
    ELSE IF ~starts_with(to_lowercase(trim(Tail(trim(tok)))), <<"g", "e", "n", "k", "i">>) THEN NoTag
    ELSE LET nr == ParseU8(SubSeq(tok, 7, Len(tok)))
         IN  IF nr >= 3 /\ nr <= 23 THEN [tag |-> "GenkiLesson", nr |-> nr] ELSE NoTag

\* the keywords of parse and of parse_search_type, and the tags they give
HiddenKeywords == {<<"h", "i", "d", "d", "e", "n">>, <<"h", "i", "d", "e">>}

IrregularIruEruKeywords ==
    {<<"i", "r", "r", "i", "c", "h", "i", "d", "a", "n">>,
     <<"i", "r", "r", "e", "g", "u", "l", "a", "r", "i", "c", "h", "i", "d", "a", "n">>,
     <<"i", "r", "r", "e", "g", "u", "l", "a", "r", "-", "i", "c", "h", "i", "d", "a", "n">>}

SearchTypeOf(word) ==
    CASE word = <<"k", "a", "n", "j", "i">> -> "Kanji"
      [] word \in {<<"s", "e", "n", "t", "e", "n", "c", "e">>,
                   <<"s", "e", "n", "t", "e", "n", "c", "e", "s">>} -> "Sentences"
      [] word \in {<<"n", "a", "m", "e">>, <<"n", "a", "m", "e", "s">>} -> "Names"
      [] word \in {<<"w", "o", "r", "d">>, <<"w", "o", "r", "d", "s">>} -> "Words"
      [] word \in {<<"a", "b", "b", "r", "e", "v", "i", "a", "t", "i", "o", "n">>,
                   <<"a", "b", "b", "r", "e", "v">>} -> "Abbreviation"
      [] OTHER -> "None"

\* parse_search_type, for a token of at least one byte
parse_search_type(tok) ==
    LET kind == SearchTypeOf(to_lowercase(Tail(tok)))
    IN  IF kind = "None" THEN NoTag
        ELSE IF kind = "Abbreviation" THEN [tag |-> "Misc", nr |-> 0]
        ELSE [tag |-> "SearchType" \o kind, nr |-> 0]

\* PosSimple::from_str: the part-of-speech keywords
PosKeywords == {<<"n", "o", "u", "n">>, <<"v", "e", "r", "b">>}

PosSimple_from_str(word) == word \in PosKeywords

\* parse: the keywords, then the genki, JLPT and search type parsers, then
\* the part of speech of s[1..]
parse(tok) ==
    LET tag == IF starts_with(to_lowercase(tok), <<"#">>)
               THEN Tail(to_lowercase(tok)) ELSE <<"no prefix">>
    IN  IF tag \in HiddenKeywords THEN [tag |-> "Hidden", nr |-> 0]
        ELSE IF tag \in IrregularIruEruKeywords THEN [tag |-> "IrregularIruEru", nr |-> 0]
        ELSE IF parse_genki_tag(tok) # NoTag THEN parse_genki_tag(tok)
        ELSE IF parse_jlpt_tag(tok) # NoTag THEN parse_jlpt_tag(tok)
        ELSE IF parse_search_type(tok) # NoTag THEN parse_search_type(tok)
        ELSE IF PosSimple_from_str(Tail(tok)) THEN [tag |-> "PartOfSpeech", nr |-> 0]
        ELSE NoTag

\* the closure handed to extract_parse: (tag, should_remove)
ParseModes == {"remove_tagged", "tag_only"}

parse_fn(mode, tok) ==
    [tag |-> parse(tok), remove |-> mode = "remove_tagged" /\ parse(tok) # NoTag]

\* utils::trim_string_end
RECURSIVE trim_string_end(_)
trim_string_end(str) ==
    IF str # <<>> /\ str[Len(str)] = " " THEN trim_string_end(SubSeq(str, 1, Len(str) - 1))
    ELSE str

\* String::replace_range(s..e, ""), for a range the caller has validated
replace_range(str, s, e) == SubSeq(str, 1, s) \o SubSeq(str, e + 1, Len(str))

\* one iteration of the loop of extract_parse over match m, from loop state
\* st = (new_out, delta, tags, panicked)
ExtractStep(inp, mode, m, st) ==
    LET p == parse_fn(mode, SubSeq(inp, m.start + 1, m.end))
        tags == IF p.tag # NoTag THEN Append(st.tags, p.tag) ELSE st.tags
        s == m.start - st.delta
        e == m.end - st.delta
        look == StrLen(st.new_out) > e + 1 /\ is_char_boundary(inp, e + 1)
        space == look /\ inp[e + 1] = " "
        e2 == IF space THEN e + 1 ELSE e
        d2 == IF space THEN st.delta + 1 ELSE st.delta
    IN  IF st.panicked THEN st
        ELSE IF ~p.remove THEN [st EXCEPT !.tags = tags]
        \* usize underflow of start - delta / end - delta
        ELSE IF s < 0 \/ e < 0 THEN [st EXCEPT !.panicked = TRUE]
        \* &inp[e..e + 1] off a character boundary
        ELSE IF look /\ ~is_char_boundary(inp, e) THEN [st EXCEPT !.panicked = TRUE]
        \* replace_range out of range or off a character boundary
        ELSE IF \/ e2 > StrLen(st.new_out)
                \/ ~is_char_boundary(st.new_out, s)
                \/ ~is_char_boundary(st.new_out, e2)
             THEN [st EXCEPT !.panicked = TRUE]
        ELSE [new_out |-> replace_range(st.new_out, s, e2),
              delta |-> d2 + (m.end - m.start),
              tags |-> tags,
              panicked |-> FALSE]

RECURSIVE ExtractLoop(_, _, _, _, _)
ExtractLoop(inp, mode, ms, k, st) ==
    IF k > Len(ms) THEN st
    ELSE ExtractLoop(inp, mode, ms, k + 1, ExtractStep(inp, mode, ms[k], st))

\* extract_parse(inp, parse): the text without the removed tags, and the tags
extract_parse(inp, mode) ==
    LET st == ExtractLoop(inp, mode, find_iter(inp), 1,
                          [new_out |-> inp, delta |-> 0, tags |-> <<>>, panicked |-> FALSE])
    IN  IF st.panicked THEN [kind |-> "panic", text |-> <<>>, tags |-> <<>>]
        ELSE [kind |-> "ok", text |-> trim_string_end(st.new_out), tags |-> st.tags]

TagInit ==
    /\ tag_inp \in PieceSeqs(MaxPieces)
    /\ parse_mode \in ParseModes
    /\ tag_out = NotRun
    /\ tag_out2 = NotRun

\* extract_parse on the input
ExtractParse ==
    /\ tag_out = NotRun
    /\ tag_out' = extract_parse(tag_inp, parse_mode)
    /\ UNCHANGED <<tag_inp, parse_mode, tag_out2, notTagVars>>

\* extract_parse on the text the first call returned
ExtractParseAgain ==
    /\ tag_out # NotRun
    /\ tag_out.kind = "ok"
    /\ tag_out2 = NotRun
    /\ tag_out2' = extract_parse(tag_out.text, parse_mode)
    /\ UNCHANGED <<tag_inp, parse_mode, tag_out, notTagVars>>

TagNext == ExtractParse \/ ExtractParseAgain

\* ------------------------------------------------------- the tag parsers
\* The tokens handed to the parsers: a head, then up to MaxTail bytes
TokenHeads ==
    { <<"#", "n">>,
      <<"#", "N">>,
      <<"#", "g", "e", "n", "k", "i">>,
      <<"#", "G", "E", "N", "K", "I">>,
      <<"#", "G", "e", "n", "K", "i">>,
      <<"#">>,
      <<"#", "k">>,
      <<"#", "g", "e", "n">>,
      <<"#", "k", "a", "n", "j", "i">>,
      <<"#", "h", "i", "d", "e">>,
      <<"#", "n", "o", "u", "n">>,
      <<" ", "#", "g", "e", "n", "k", "i">> }

TailBytes == {"0", "1", "2", "3", "4", "5", "6", "n"}

RECURSIVE TokenTails(_)
TokenTails(n) ==
    IF n = 0 THEN {<<>>}
    ELSE TokenTails(n - 1) \cup {Append(t, b) : t \in TokenTails(n - 1), b \in TailBytes}

Tokens == {h \o t : h \in TokenHeads, t \in TokenTails(MaxTail)}

ParserInit ==
    /\ token \in Tokens
    /\ jlpt_res = NotRun
    /\ genki_res = NotRun
    /\ parse_res = NotRun

ParseJlptTag ==
    /\ jlpt_res = NotRun
    /\ jlpt_res' = parse_jlpt_tag(token)
    /\ UNCHANGED <<token, genki_res, parse_res, notParserVars>>

ParseGenkiTag ==
    /\ genki_res = NotRun
    /\ genki_res' = parse_genki_tag(token)
    /\ UNCHANGED <<token, jlpt_res, parse_res, notParserVars>>

Parse ==
    /\ parse_res = NotRun
    /\ parse_res' = parse(token)
    /\ UNCHANGED <<token, jlpt_res, genki_res, notParserVars>>

ParserNext == ParseJlptTag \/ ParseGenkiTag \/ Parse

\* ------------------------------------------------- suggestions: the data
\* A string is a sequence of characters.  Roman letters, digits and
\* punctuation are one-letter characters; "ta" "be" ... are hiragana, "TA"
\* "BE" ... the katakana of the same syllables, "K1" is a kanji.
Hiragana == {"ta", "be", "ru", "te", "su", "to", "no", "ne"}
Katakana == {"TA", "BE", "RU", "TE", "SU", "TO", "NO", "NE"}
Kanji == {"K1"}
RomanLetters == {"a", "e", "r", "t", "x"}

\* romaji::RomajiExt::to_katakana on one character
KatakanaOf(c) ==
    CASE c = "ta" -> "TA" [] c = "be" -> "BE" [] c = "ru" -> "RU" [] c = "te" -> "TE"
      [] c = "su" -> "SU" [] c = "to" -> "TO" [] c = "no" -> "NO" [] c = "ne" -> "NE"
      [] OTHER -> c

to_katakana(str) == [i \in 1..Len(str) |-> KatakanaOf(str[i])]

\* JapaneseExt::is_hiragana on a string
is_hiragana(str) == \A i \in 1..Len(str) : str[i] \in Hiragana

\* JapaneseExt::is_roman_letter on a character
is_roman_letter(c) == c \in RomanLetters

\* utils::real_string_len: the number of characters
real_string_len(str) == Len(str)

\* query_parser::parse_language: Japanese for a string with a kana or kanji
\* character, else Foreign
parse_language(str) ==
    IF \E i \in 1..Len(str) : str[i] \in Hiragana \cup Katakana \cup Kanji
    THEN "Japanese" ELSE "Foreign"

\* Language::from_str, with Err as "Err"
Language_from_str(name) == IF name \in {"en", "de"} THEN name ELSE "Err"

\* Language::default
DefaultLanguage == "en"

\* WordPair
WordPair(primary, secondary) == [primary |-> primary, secondary |-> secondary]

\* Option: None, and Some(val)
None == [some |-> FALSE, val |-> <<>>]

Some(val) == [some |-> TRUE, val |-> val]

\* ------------------------------------------------- the dict table
\* a row of dict; jlpt_lvl and priorities (the array's length) are -1 for NULL
DictRow(sequence, reading, kanji, is_main, jlpt_lvl, priorities) ==
    [sequence |-> sequence, reading |-> reading, kanji |-> kanji, is_main |-> is_main,
     jlpt_lvl |-> jlpt_lvl, priorities |-> priorities]

\* the table, in the order the database scans it
Dict ==
    << DictRow(1, <<"ta", "be">>, FALSE, FALSE, 5, 2),
       DictRow(1, <<"K1", "be">>, TRUE, TRUE, 5, 2),
       DictRow(1, <<"ta", "be", "no", "ne">>, FALSE, FALSE, 5, 2),
       DictRow(2, <<"K1", "ru">>, TRUE, FALSE, 5, 3),
       DictRow(2, <<"K1", "be", "ru">>, TRUE, TRUE, 5, 3),
       DictRow(2, <<"ta", "be", "ru">>, FALSE, FALSE, 5, 3),
       DictRow(3, <<"ta">>, FALSE, FALSE, -1, -1),
       DictRow(4, <<"K1">>, TRUE, TRUE, 4, 1),
       DictRow(5, <<"ta", "no">>, FALSE, FALSE, 4, 1),
       DictRow(6, <<"ta", "no", "su">>, FALSE, FALSE, 4, -1),
       DictRow(7, <<"ta", "su">>, FALSE, FALSE, 3, 2),
       DictRow(8, <<"ta", "to">>, FALSE, FALSE, 3, 1),
       DictRow(9, <<"ta", "te">>, FALSE, FALSE, 2, 1),
       DictRow(10, <<"ta", "te", "ru">>, FALSE, FALSE, 2, 1),
       DictRow(11, <<"ta", "be", "te">>, FALSE, FALSE, 1, 1),
       DictRow(12, <<"ta", "su", "to">>, FALSE, FALSE, -1, 2),
       DictRow(13, <<"ta", "su", "ru">>, FALSE, FALSE, 5, 2),
       DictRow(20, <<"TE", "SU", "TO">>, FALSE, FALSE, 3, 1),
       DictRow(21, <<"TE", "SU">>, FALSE, FALSE, -1, -1),
       DictRow(21, <<"K1", "K1">>, TRUE, TRUE, -1, -1) >>

\* ORDER BY jlpt_lvl DESC NULLS LAST, ARRAY_LENGTH(priorities,1) DESC NULLS
\* LAST, LENGTH(reading): row a sorts strictly before row b
SeqQueryBefore(a, b) ==
    \/ a.jlpt_lvl > b.jlpt_lvl
    \/ a.jlpt_lvl = b.jlpt_lvl /\ a.priorities > b.priorities
    \/ a.jlpt_lvl = b.jlpt_lvl /\ a.priorities = b.priorities
         /\ Len(a.reading) < Len(b.reading)

RECURSIVE OrderBy(_)
\* the rows sorted by SeqQueryBefore; rows that compare equal stay in scan order
OrderBy(rows) ==
    IF rows = <<>> THEN <<>>
    ELSE LET first == CHOOSE i \in 1..Len(rows) :
                 /\ \A j \in 1..Len(rows) : ~SeqQueryBefore(rows[j], rows[i])
                 /\ \A j \in 1..(i - 1) : SeqQueryBefore(rows[i], rows[j])
         IN  <<rows[first]>> \o OrderBy(SelectSeqBy(rows, (1..Len(rows)) \ {first}))

\* seq_query: SELECT sequence FROM dict WHERE reading LIKE query_str% ORDER BY
\* ... LIMIT max_results, for a query_str without LIKE wildcards
seq_query(query_str, max_results) ==
    LET hits == SelectSeqBy(Dict, {i \in 1..Len(Dict) : starts_with(Dict[i].reading, query_str)})
        rows == Take(OrderBy(hits), max_results)
    IN  [i \in 1..Len(rows) |-> rows[i].sequence]

\* word_query: select reading, kanji from dict where sequence = $1 and
\* (is_main or kanji = false)
word_query(sequence) ==
    SelectSeqBy(Dict, {i \in 1..Len(Dict) :
                          /\ Dict[i].sequence = sequence
                          /\ (Dict[i].is_main \/ ~Dict[i].kanji)})

\* ------------------------------------------------- japanese suggestions
\* Vec::dedup: of each run of equal consecutive elements the first is kept
dedup(s) == SelectSeqBy(s, {i \in 1..Len(s) : i = 1 \/ s[i] # s[i - 1]})

\* the closure of filter_map in load_words, on the rows of one sequence: no
\* pair without a non-kanji row, else the first non-kanji reading with the
\* first kanji reading, if there is one
word_pair_of(words) ==
    LET kana == {i \in 1..Len(words) : ~words[i].kanji}
        kanji == {i \in 1..Len(words) : words[i].kanji}
        first(S) == CHOOSE i \in S : \A j \in S : i <= j
    IN  IF kana = {} THEN <<>>
        ELSE << WordPair(words[first(kana)].reading,
                         IF kanji = {} THEN None ELSE Some(words[first(kanji)].reading)) >>

\* what load_words returns when every lookup succeeds: the pairs of the
\* sequences, in the order of the sequences
load_words(sequences) ==
    Flatten([i \in 1..Len(sequences) |-> word_pair_of(word_query(sequences[i]))])

\* get_sequence_ids with a database that answers
get_sequence_ids(query_str) == load_words(dedup(seq_query(query_str, MAX_RESULTS)))

\* ------------------------------------------------- the suggestion files
Line(text) == [ok |-> TRUE, text |-> text]

\* a line that io::Lines yields as Err
Unreadable == [ok |-> FALSE, text |-> <<>>]

RECURSIVE DigitsOf(_)
\* the decimal digits of a natural number
DigitsOf(n) ==
    LET d == <<"0", "1", "2", "3", "4", "5", "6", "7", "8", "9">>[(n % 10) + 1]
    IN  IF n < 10 THEN <<d>> ELSE Append(DigitsOf(n \div 10), d)

File(name, lines) == [name |-> name, lines |-> lines]

\* the suggestion source directories a configuration can point to: the
\* entries of read_dir, or readable = FALSE when read_dir fails
SuggestionSources ==
    << [readable |-> TRUE,
        entries |-> << File("en", [i \in 1..13 |->
                                     IF i = 5 THEN Line(<<"t", ",", "1">>)
                                     ELSE IF i = 6 THEN Line(<<"t", ",", "a", ",", "2">>)
                                     ELSE IF i = 7 THEN Line(<<"3">>)
                                     ELSE Line(<<"t", "e">> \o DigitsOf(i) \o <<",">> \o DigitsOf(100 + i))]),
                       File("de", << Line(<<"t", "e", "e", ",", "7">>),
                                     Line(<<"t", "e", "r", ",", "x">>),
                                     Line(<<"t", ",", "9">>) >>),
                       File("notes", << Line(<<"t", ",", "8">>) >>) >>],
       [readable |-> TRUE,
        entries |-> << File("de", << Line(<<"t", "e", "e", ",", "7">>),
                                     Line(<<"t", ",", "-", "9">>) >>),
                       File("en", << Line(<<"t", ",", "1">>), Unreadable >>) >>],
       [readable |-> FALSE, entries |-> <<>>] >>

SuggestionItem(text, sequence) == [text |-> text, sequence |-> sequence]

\* str::parse::<i32>: an optional sign and digits; the numbers of the files
\* above are far from the ends of i32
ParseI32(field) ==
    LET signed == field # <<>> /\ field[1] \in {"+", "-"}
        ds == IF signed THEN Tail(field) ELSE field
    IN  IF ds = <<>> \/ \E i \in 1..Len(ds) : ds[i] \notin Digits
        THEN [ok |-> FALSE, val |-> 0]
        ELSE [ok |-> TRUE,
              val |-> IF signed /\ field[1] = "-" THEN 0 - DecimalValue(ds)
                      ELSE DecimalValue(ds)]

\* the closure of map in load_file, on one line: None as <<>>
parse_line(line) ==
    LET commas == {i \in 1..Len(line.text) : line.text[i] = ","}
        last == IF commas = {} THEN 0 ELSE CHOOSE i \in commas : \A j \in commas : j <= i
        number == ParseI32(SubSeq(line.text, last + 1, Len(line.text)))
    IN  IF ~line.ok THEN <<>>
        ELSE IF ~number.ok THEN <<>>
        ELSE << SuggestionItem(SubSeq(line.text, 1, last - 1), number.val) >>

\* mutant: the lines that do not parse are left out
load_file_partial(file) ==
    Some(Flatten([i \in 1..Len(file.lines) |-> parse_line(file.lines[i])]))

\* load_file: None when a line gives None, else the items of all lines
load_file(file) ==
    IF \E i \in 1..Len(file.lines) : parse_line(file.lines[i]) = <<>> THEN None
    ELSE Some(Flatten([i \in 1..Len(file.lines) |-> parse_line(file.lines[i])]))

\* the map load_suggestions builds from a directory: a language has the
\* items of its file if the file's name is a language and load_file gave Some
SuggestionMap(dir) ==
    LET loaded == {i \in 1..Len(dir.entries) :
                      /\ Language_from_str(dir.entries[i].name) # "Err"
                      /\ load_file(dir.entries[i]).some}
        entry_of(lang) == CHOOSE i \in loaded :
                              /\ Language_from_str(dir.entries[i].name) = lang
                              /\ \A j \in loaded :
                                     Language_from_str(dir.entries[j].name) = lang => j <= i
    IN  IF ~dir.readable THEN <<>>
        ELSE [lang \in {Language_from_str(dir.entries[i].name) : i \in loaded} |->
                 load_file(dir.entries[entry_of(lang)]).val]

\* SUGGESTIONS before it is set
Unset == [set |-> FALSE, map |-> <<>>]

\* ------------------------------------------------- foreign suggestions
\* TextSearch::search: the items whose text starts with the query
TextSearch_search(items, query_str) ==
    SelectSeqBy(items, {i \in 1..Len(items) : starts_with(items[i].text, query_str)})

\* mutant: every match is returned
foreign_suggestions_all(cell, query) ==
    IF ~cell.set THEN None
    ELSE IF query.user_lang \notin DOMAIN cell.map THEN None
    ELSE LET res == TextSearch_search(cell.map[query.user_lang], query.query)
         IN  Some([i \in 1..Len(res) |-> WordPair(res[i].text, None)])

\* foreign::suggestions: None without a registry or without the language
foreign_suggestions(cell, query) ==
    IF ~cell.set THEN None
    ELSE IF query.user_lang \notin DOMAIN cell.map THEN None
    ELSE LET res == TextSearch_search(cell.map[query.user_lang], query.query)
         IN  Some(Take([i \in 1..Len(res) |-> WordPair(res[i].text, None)], 10))

\* ------------------------------------------------- the lookup
\* WordPair::has_reading
has_reading(pair, reading) ==
    \/ pair.primary = reading
    \/ pair.secondary.some /\ pair.secondary.val = reading

\* the comparator of sort_by gives Less for (a, b)
ExactFirst(a, b, reading) == has_reading(a, reading) /\ ~has_reading(b, reading)

RECURSIVE sort_by(_, _)
\* slice::sort_by with that comparator: a stable sort
sort_by(pairs, reading) ==
    IF pairs = <<>> THEN <<>>
    ELSE LET n == Len(pairs)
             x == pairs[n]
             sorted == sort_by(SubSeq(pairs, 1, n - 1), reading)
             k == Cardinality({i \in 1..Len(sorted) : ~ExactFirst(x, sorted[i], reading)})
         IN  SubSeq(sorted, 1, k) \o <<x>> \o SubSeq(sorted, k + 1, Len(sorted))

\* what the lookup for a query produces before it is sorted; db_ok: the
\* database answered every statement
word_pairs_of(cell, query, db_ok) ==
    IF query.language = "Japanese"
    THEN IF db_ok THEN [kind |-> "ok", pairs |-> get_sequence_ids(query.query)]
         ELSE [kind |-> "err", pairs |-> <<>>]
    ELSE LET f == foreign_suggestions(cell, query)
         IN  [kind |-> "ok", pairs |-> IF f.some THEN f.val ELSE <<>>]

\* mutant: the pairs are returned as the lookup produced them
get_suggestion_by_query_unsorted(cell, query, db_ok) ==
    LET w == word_pairs_of(cell, query, db_ok)
    IN  IF w.kind = "err" THEN [kind |-> "err", err |-> "Internal"]
        ELSE [kind |-> "ok", suggestions |-> w.pairs]

\* get_suggestion_by_query: the response, or the database's error
get_suggestion_by_query(cell, query, db_ok) ==
    LET w == word_pairs_of(cell, query, db_ok)
    IN  IF w.kind = "err" THEN [kind |-> "err", err |-> "Internal"]
        ELSE [kind |-> "ok", suggestions |-> sort_by(w.pairs, query.query)]

\* ------------------------------------------------- the suggestion handler
Requests == {1, 2}

RECURSIVE Repeat(_, _)
Repeat(c, n) == IF n = 0 THEN <<>> ELSE Append(Repeat(c, n - 1), c)

\* SuggestionRequest
SuggestionRequest(input, lang) == [input |-> input, lang |-> lang]

\* the payloads a client sends
Payloads ==
    { SuggestionRequest(<<>>, ""),
      SuggestionRequest(Repeat("x", MaxQueryLen), ""),
      SuggestionRequest(Repeat("x", MaxQueryLen + 1), ""),
      SuggestionRequest(<<" ">>, ""),
      SuggestionRequest(<<"t">>, ""),
      SuggestionRequest(<<"t">>, "de"),
      SuggestionRequest(<<"ta">>, ""),
      SuggestionRequest(<<"ta", "be", "r">>, "de"),
      SuggestionRequest(<<"te", "su">>, ""),
      SuggestionRequest(<<"no", "ne">>, "") }

BadRequest == [kind |-> "err", err |-> "BadRequest"]

Timeout == [kind |-> "err", err |-> "Timeout"]

\* a request the server has received and not yet handled.  parsed: the query
\* parser was called; lookups: the queries get_suggestion_by_query was called
\* with; word_pairs: the pairs each finished call had before sorting them;
\* outcomes: what the finished calls returned; elapsed: the deadline of the
\* timeout passed before get_suggestion finished
NewRequest(input, lang) ==
    [pc |-> "received", input |-> input, lang |-> lang, parsed |-> FALSE,
     lookups |-> <<>>, word_pairs |-> <<>>, outcomes |-> <<>>, elapsed |-> FALSE,
     resp |-> NotRun]

\* mutant: 38 characters are let through
InvalidLength_above38(query_len) == query_len < 1 \/ query_len > MaxQueryLen + 1

\* the length test of suggestion()
InvalidLength(query_len) == query_len < 1 \/ query_len > MaxQueryLen

\* suggestion(): the input without the roman letter typed last
StripLastRoman(input) ==
    IF /\ parse_language(input) = "Japanese"
       /\ is_roman_letter(input[Len(input)])
       /\ real_string_len(input) > 1
    THEN SubSeq(input, 1, Len(input) - 1)
    ELSE input

\* QueryParser::new(query_str, Words, settings, 0, 0).parse(): None for a
\* query that is empty once trimmed
QueryParser_parse(query_str, user_lang) ==
    IF trim(query_str) = <<>> THEN None
    ELSE Some([query |-> trim(query_str), language |-> parse_language(trim(query_str)),
               user_lang |-> user_lang])

\* Language::from_str(&payload.lang).unwrap_or_default()
UserLang(lang) ==
    IF Language_from_str(lang) = "Err" THEN DefaultLanguage ELSE Language_from_str(lang)

\* suggestion() up to the call of get_suggestion under the timeout
Suggestion(r) ==
    /\ req[r].pc = "received"
    /\ LET input == req[r].input
           query_len == real_string_len(input)
           query == QueryParser_parse(StripLastRoman(input), UserLang(req[r].lang))
       IN  req' = [req EXCEPT ![r] =
               IF InvalidLength(query_len)
               THEN [@ EXCEPT !.pc = "done", !.resp = BadRequest]
               ELSE IF ~query.some
               THEN [@ EXCEPT !.pc = "done", !.parsed = TRUE, !.resp = BadRequest]
               ELSE [@ EXCEPT !.pc = "lookup1", !.parsed = TRUE, !.lookups = <<query.val>>]]
    /\ UNCHANGED <<SUGGESTIONS, loads, first_sources, notSuggestVars>>

\* mutant: every empty first result is retried
Fallback_any_empty(suggestions, query) ==
    suggestions.kind = "ok" /\ suggestions.suggestions = <<>>

\* get_suggestion: the first lookup gave Ok, is_empty() and is_hiragana()
Fallback(suggestions, query) ==
    /\ suggestions.kind = "ok"
    /\ suggestions.suggestions = <<>>
    /\ is_hiragana(query.query)

\* mutant: an error of the lookup is answered as Timeout
timeout_result_errors_too(elapsed, res) ==
    IF elapsed \/ res.kind = "err" THEN Timeout ELSE res

\* timeout(..).await.map_err(|_| RestError::Timeout)??
timeout_result(elapsed, res) == IF elapsed THEN Timeout ELSE res

\* get_suggestion: the lookup in flight finishes.  After the first lookup
\* with no suggestion for a hiragana query, the lookup of the katakana query
\* starts; else get_suggestion returns and the handler answers
LookupCompletes(r, db_ok) ==
    /\ req[r].pc \in {"lookup1", "lookup2"}
    /\ LET query == req[r].lookups[Len(req[r].lookups)]
           res == get_suggestion_by_query(SUGGESTIONS, query, db_ok)
           word_pairs == word_pairs_of(SUGGESTIONS, query, db_ok).pairs
           new_query == [query EXCEPT !.query = to_katakana(query.query)]
       IN  req' = [req EXCEPT ![r] =
               IF req[r].pc = "lookup1" /\ Fallback(res, query)
               THEN [@ EXCEPT !.pc = "lookup2", !.outcomes = Append(@, res),
                              !.word_pairs = Append(@, word_pairs),
                              !.lookups = Append(@, new_query)]
               ELSE [@ EXCEPT !.pc = "done", !.outcomes = Append(@, res),
                              !.word_pairs = Append(@, word_pairs),
                              !.resp = timeout_result(FALSE, res)]]
    /\ UNCHANGED <<SUGGESTIONS, loads, first_sources, notSuggestVars>>

\* timeout(): the deadline passes while get_suggestion is pending
Elapsed(r) ==
    /\ req[r].pc \in {"lookup1", "lookup2"}
    /\ req' = [req EXCEPT ![r] = [@ EXCEPT !.pc = "done", !.elapsed = TRUE,
                                               !.resp = timeout_result(TRUE, NotRun)]]
    /\ UNCHANGED <<SUGGESTIONS, loads, first_sources, notSuggestVars>>

\* mutant: a later call replaces the registry
load_suggestions_replace(cell, dir) == [set |-> TRUE, map |-> SuggestionMap(dir)]

\* load_suggestions: SUGGESTIONS.set(...).ok() sets the cell if it is not set
load_suggestions(cell, dir) ==
    IF cell.set THEN cell ELSE [set |-> TRUE, map |-> SuggestionMap(dir)]

LoadSuggestions(d) ==
    /\ loads < MaxLoads
    /\ loads' = loads + 1
    /\ SUGGESTIONS' = load_suggestions(SUGGESTIONS, SuggestionSources[d])
    /\ first_sources' = IF loads = 0 THEN d ELSE first_sources
    /\ UNCHANGED <<req, notSuggestVars>>

SuggestInit ==
    /\ SUGGESTIONS = Unset
    /\ loads = 0
    /\ first_sources = 0
    /\ req \in [Requests -> {NewRequest(p.input, p.lang) : p \in Payloads}]

SuggestNext ==
    \/ \E r \in Requests : Suggestion(r)
    \/ \E r \in Requests, db_ok \in BOOLEAN : LookupCompletes(r, db_ok)
    \/ \E r \in Requests : Elapsed(r)
    \/ \E d \in 1..Len(SuggestionSources) : LoadSuggestions(d)

\* ------------------------------------------------- load_words, step by step
\* the sequence ids load_words can be called with
SequenceIds == {1, 2, 4, 21}

RECURSIVE SequenceLists(_)
SequenceLists(n) ==
    IF n = 0 THEN {<<>>}
    ELSE SequenceLists(n - 1)
           \cup {Append(s, id) : s \in {t \in SequenceLists(n - 1) : Len(t) = n - 1},
                                 id \in SequenceIds}

Pending == [state |-> "pending", rows |-> <<>>]

\* mutant: the rows are combined in the order the lookups finished
combine_completion_order(results, completed) ==
    Flatten([k \in 1..Len(completed) |-> word_pair_of(results[completed[k]].rows)])

\* into_iter().filter_map(..).collect() on what try_collect gathered: the
\* rows of the lookups in the order FuturesOrdered was filled
combine(results, completed) ==
    Flatten([i \in 1..Len(results) |-> word_pair_of(results[i].rows)])

\* load_words is called
LoadWordsInit ==
    /\ lw_sequences \in SequenceLists(MaxSequences)
    /\ lw_pc = "prepare"
    /\ lw_results = <<>>
    /\ lw_completed = <<>>
    /\ lw_out = NotRun

\* client.prepare(word_query) answers: on an error load_words returns it,
\* else one lookup per sequence is put into FuturesOrdered
Prepare(ok) ==
    /\ lw_pc = "prepare"
    /\ IF ok
       THEN /\ lw_pc' = "lookups"
            /\ lw_results' = [i \in 1..Len(lw_sequences) |-> Pending]
            /\ lw_out' = lw_out
       ELSE /\ lw_pc' = "done"
            /\ lw_out' = [kind |-> "err", err |-> "Internal"]
            /\ lw_results' = lw_results
    /\ UNCHANGED <<lw_sequences, lw_completed, notWordsVars>>

\* the database answers the lookup of the i-th sequence, with rows or an error
QueryCompletes(i, ok) ==
    /\ lw_pc = "lookups"
    /\ i \in 1..Len(lw_results)
    /\ lw_results[i].state = "pending"
    /\ lw_results' = [lw_results EXCEPT ![i] =
           IF ok THEN [state |-> "ok", rows |-> word_query(lw_sequences[i])]
           ELSE [state |-> "err", rows |-> <<>>]]
    /\ lw_completed' = Append(lw_completed, i)
    /\ UNCHANGED <<lw_sequences, lw_pc, lw_out, notWordsVars>>

\* try_collect finishes: FuturesOrdered yields the answers in the order of
\* the lookups, so either every lookup answered with rows, or one answered
\* with an error and all lookups before it with rows
TryCollect ==
    /\ lw_pc = "lookups"
    /\ LET n == Len(lw_results)
           errs == {i \in 1..n : lw_results[i].state = "err"
                                   /\ \A j \in 1..(i - 1) : lw_results[j].state = "ok"}
       IN  \/ /\ \A i \in 1..n : lw_results[i].state = "ok"
              /\ lw_out' = [kind |-> "ok", pairs |-> combine(lw_results, lw_completed)]
           \/ /\ errs # {}
              /\ lw_out' = [kind |-> "err", err |-> "Internal"]
    /\ lw_pc' = "done"
    /\ UNCHANGED <<lw_sequences, lw_results, lw_completed, notWordsVars>>

LoadWordsNext ==
    \/ \E ok \in BOOLEAN : Prepare(ok)
    \/ \E i \in 1..MaxSequences, ok \in BOOLEAN : QueryCompletes(i, ok)
    \/ TryCollect

\* ------------------------------------------ the native word search (Find)
\* index::INDEX: the index the process has set, 0 when it was never set
NativeIndexes == {0, 1, 2}

\* the index behind INDEX
native_index(i) == get_index(i, NoLang)

NativeQueries == {"a", "ab", "b", "c"}

NativeLimits == 0..2

NativeOffsets == 0..1

\* Find::gen_query: DocumentVector::new gives None for a query without a
\* known term
gen_query(index, query) == gen_query_vector(index, query)

\* VectorStore::get_all_async on the query's dimensions: the documents
\* sharing a dimension, or an error of the store
get_all_async(index, qvec, store_ok) ==
    IF store_ok THEN [ok |-> TRUE, vecs |-> get_all_iter(index, qvec)]
    ELSE [ok |-> FALSE, vecs |-> <<>>]

\* (relevance * 1000f32) as u32
PermilleScore(sim) ==
    FloorSearch(0, 1000, 1000000 * sim.dot * sim.dot, sim.nq * sim.nd)

RECURSIVE sort_by_rev(_)
\* sort_by with the closure 'sort' of Find::find: descending in the score,
\* stable
sort_by_rev(items) ==
    IF items = <<>> THEN <<>>
    ELSE LET n == Len(items)
             x == items[n]
             sorted == sort_by_rev(SubSeq(items, 1, n - 1))
             k == Cardinality({i \in 1..Len(sorted) : sorted[i].relevance >= x.relevance})
         IN  SubSeq(sorted, 1, k) \o <<x>> \o SubSeq(sorted, k + 1, Len(sorted))

\* FindExt::vecs_to_result_items and the map to ResultItem: the documents
\* with their score, sorted, cut to offset and limit
vecs_to_result_items(lim, off, qvec, vecs) ==
    LET scored == [i \in 1..Len(vecs) |->
                      ResultItem(vecs[i].id, PermilleScore(similarity(vecs[i].vec, qvec)), "en")]
        sorted == sort_by_rev(scored)
    IN  SubSeq(sorted, off + 1, Min(off + lim, Len(sorted)))

\* SearchResult::new
SearchResult_new(items) == [kind |-> "ok", items |-> items, total_items |-> Len(items)]

\* mutant: an error of the vector store is answered as Unexpected
native_find_unexpected(i, query, lim, off, store_ok) ==
    LET index == native_index(i)
        query_vec == gen_query(index, query)
        document_vectors == get_all_async(index, query_vec.vec, store_ok)
    IN  IF i = 0 THEN [kind |-> "err", err |-> "Unexpected"]
        ELSE IF ~query_vec.some THEN SearchResult_new(<<>>)
        ELSE IF ~document_vectors.ok THEN [kind |-> "err", err |-> "Unexpected"]
        ELSE SearchResult_new(vecs_to_result_items(lim, off, query_vec.vec,
                                                   document_vectors.vecs))

\* Find::find
native_find(i, query, lim, off, store_ok) ==
    LET index == native_index(i)
        query_vec == gen_query(index, query)
        document_vectors == get_all_async(index, query_vec.vec, store_ok)
    IN  IF i = 0 THEN [kind |-> "err", err |-> "Unexpected"]
        ELSE IF ~query_vec.some THEN SearchResult_new(<<>>)
        ELSE IF ~document_vectors.ok THEN [kind |-> "err", err |-> "NotFound"]
        ELSE SearchResult_new(vecs_to_result_items(lim, off, query_vec.vec,
                                                   document_vectors.vecs))

\* Find::new, in a process whose INDEX and vector store are as drawn
NativeInit ==
    /\ nf_index \in NativeIndexes
    /\ nf_query \in NativeQueries
    /\ nf_limit \in NativeLimits
    /\ nf_offset \in NativeOffsets
    /\ nf_store_ok \in BOOLEAN
    /\ nf_found = NotRun

NativeFind ==
    /\ nf_found = NotRun
    /\ nf_found' = native_find(nf_index, nf_query, nf_limit, nf_offset, nf_store_ok)
    /\ UNCHANGED <<nf_index, nf_query, nf_limit, nf_offset, nf_store_ok, notNativeVars>>

NativeNext == NativeFind

\* ------------------------------------------------- kun readings of a kanji
\* A kun reading is a string of kana characters with the markers "-" and
\* "."; "fu" "ru" ... are kana, "K1" "K2" "K3" are kanji literals.

\* str::replace(c, ""): the string without the character c
Without(str, c) == SelectSeqBy(str, {i \in 1..Len(str) : str[i] # c})

RECURSIVE Replace(_, _, _)
\* str::replace(from, to) for a pattern that is not empty: every match,
\* from the left, not overlapping
Replace(str, from, to) ==
    IF Len(str) < Len(from) THEN str
    ELSE IF SubSeq(str, 1, Len(from)) = from
    THEN to \o Replace(SubSeq(str, Len(from) + 1, Len(str)), from, to)
    ELSE <<Head(str)>> \o Replace(Tail(str), from, to)

\* str.split('.').next().unwrap(): the part before the first "."
BeforeDot(str) ==
    LET dots == {i \in 1..Len(str) : str[i] = "."}
    IN  IF dots = {} THEN str
        ELSE SubSeq(str, 1, (CHOOSE i \in dots : \A j \in dots : i <= j) - 1)

\* format_reading
format_reading(reading) == Without(Without(reading, "-"), ".")

\* kun_len
kun_len(kun) == real_string_len(format_reading(kun))

\* kun_literal_reading
kun_literal_reading(kun) == BeforeDot(Without(kun, "-"))

ends_with(str, suffix) ==
    /\ Len(suffix) <= Len(str)
    /\ SubSeq(str, Len(str) - Len(suffix) + 1, Len(str)) = suffix

\* SearchMode::str_eq without ignoring case: equality for Exact, a starts
\* with b for LeftVariable, a ends with b for RightVariable
str_eq(mode, a, b) ==
    CASE mode = "Exact" -> a = b
      [] mode = "LeftVariable" -> starts_with(a, b)
      [] mode = "RightVariable" -> ends_with(a, b)

\* the match mode kun_matches_kanji chooses
match_mode(literal, kun, kanji_reading) ==
    IF starts_with(kun, <<"-">>) THEN "RightVariable"
    ELSE IF ends_with(kun, <<"-">>) \/ starts_with(kanji_reading, literal) THEN "LeftVariable"
    ELSE "Exact"

\* mutant: the literal is not replaced by the kun's reading
kun_matches_kanji_literal(literal, kun, kana_reading, kanji_reading) ==
    LET kanji_out == IF "." \in Range(kun)
                     THEN Replace(Without(kun, "-"), Append(BeforeDot(kun), "."), literal)
                     ELSE literal
    IN  str_eq(match_mode(literal, kun, kanji_reading), kana_reading, kanji_out)

\* kun_matches_kanji
kun_matches_kanji(literal, kun, kana_reading, kanji_reading) ==
    LET kanji_out == IF "." \in Range(kun)
                     THEN Replace(Without(kun, "-"), Append(BeforeDot(kun), "."), literal)
                     ELSE literal
    IN  str_eq(match_mode(literal, kun, kanji_reading), kana_reading,
               Replace(kanji_out, literal, kun_literal_reading(kun)))

\* the readings kun_matches_kanji and get_kun_by_literal are called with
KanjiLiterals == {<<"K1">>, <<"K2">>, <<"K3">>}

KunReadings ==
    { <<"fu", "ru", "-">>, <<"fu", "ru", ".", "i">>, <<"-", "fu", "ru">>,
      <<"a", "ta", "ra", "shi", "i">>, <<"a", "ra", "-">>,
      <<"u", "zu", ".", "ku">>, <<"-", "zu", ".", "ku">> }

KanaReadings ==
    { <<"fu", "ru", "i", "e">>, <<"fu", "ru", "i">>, <<"fu", "ru">>, <<"i", "e", "fu", "ru">>,
      <<"a", "ta", "ra", "shi", "i">>, <<"shi", "n", "a", "n">>,
      <<"u", "zu", "ku">>, <<"u", "zu", "ku", "ma", "ru">>, <<"u">> }

KanjiReadings ==
    { <<"K1", "i", "i", "e">>, <<"K1", "i">>, <<"ma", "K1">>,
      <<"K2", "shi", "i">>, <<"K2", "K4">>, <<"K3", "ku">> }

\* the dict table get_kun_by_literal reads, in the order of id.  Sequences
\* 101 to 112 are words that start with K1 and are read fu ru ..., with
\* one to three more characters; each word has its kanji rows before its
\* kana rows
KunDict ==
    Flatten([i \in 1..12 |->
        LET t == SubSeq(<<"t" \o ToString(i), "x", "y">>, 1, ((i - 1) % 3) + 1)
            jlpt == IF i % 4 = 0 THEN -1 ELSE (i % 5) + 1
            prio == IF i % 2 = 0 THEN -1 ELSE 1
        IN  << DictRow(100 + i, <<"K1">> \o t, TRUE, TRUE, jlpt, prio),
               DictRow(100 + i, <<"fu", "ru">> \o t, FALSE, FALSE, jlpt, prio) >>])
    \o << DictRow(113, <<"K1", "K5">>, TRUE, TRUE, 2, 1),
          DictRow(113, <<"ko", "ko", "n">>, FALSE, FALSE, 2, 1),
          DictRow(114, <<"K1">>, TRUE, TRUE, -1, -1),
          DictRow(114, <<"fu">>, FALSE, FALSE, -1, -1),
          DictRow(115, <<"ma", "K1">>, TRUE, TRUE, -1, 1),
          DictRow(115, <<"K1", "ma">>, TRUE, FALSE, -1, 1),
          DictRow(115, <<"fu", "ru", "ma">>, FALSE, FALSE, -1, 1),
          DictRow(201, <<"K2", "shi", "i">>, TRUE, TRUE, 5, 2),
          DictRow(201, <<"a", "ta", "ra", "shi", "i">>, FALSE, FALSE, 5, 2),
          DictRow(202, <<"K2", "K4">>, TRUE, TRUE, -1, -1),
          DictRow(202, <<"shi", "n", "a", "n">>, FALSE, FALSE, -1, -1),
          DictRow(203, <<"K2", "ta">>, TRUE, TRUE, 3, 1),
          DictRow(203, <<"a", "ra", "ta">>, FALSE, FALSE, 3, 1) >>

\* the kun readings of the kanji of the table
KunyomiOf(literal) ==
    IF literal = <<"K1">> THEN << <<"fu", "ru", ".", "i">>, <<"fu", "ru", "-">>, <<"-", "fu", "ru">> >>
    ELSE << <<"a", "ta", "ra", ".", "shi", "i">>, <<"a", "ra", "-">> >>

\* the dict_cache of update_kun_links when get_kun_by_literal is called:
\* sequence -> the row inserted last
DictCaches == { <<>>, [s \in {201} |-> KunDict[33]] }

\* Dict::len: the number of characters of the reading
Dict_len(d) == real_string_len(d.reading)

\* JA_NL_PARSER.parse(reading).len(): the number of morphemes
MorphemesOf(reading) == IF Len(reading) <= 2 THEN 1 ELSE Len(reading) - 1

\* utils::get_item_order: the order of the positions of two items of a list
get_item_order(list, a, b) ==
    LET pos(x) == CHOOSE i \in 1..Len(list) : list[i] = x /\ \A j \in 1..(i - 1) : list[j] # x
    IN  IF pos(a) < pos(b) THEN "Less" ELSE IF pos(a) > pos(b) THEN "Greater" ELSE "Equal"

\* the closure of kuns.sort_by; tokenizer: the build has the feature
kuns_cmp(a, b, clean_kuns, tokenizer) ==
    LET a_kunr == \E i \in 1..Len(clean_kuns) : clean_kuns[i] = a.reading
        b_kunr == \E i \in 1..Len(clean_kuns) : clean_kuns[i] = b.reading
        a_parsed == MorphemesOf(a.reading)
        b_parsed == MorphemesOf(b.reading)
        a_prio == IF a.priorities < 0 THEN 0 ELSE a.priorities
        b_prio == IF b.priorities < 0 THEN 0 ELSE b.priorities
    IN  IF a_kunr /\ b_kunr THEN get_item_order(clean_kuns, a.reading, b.reading)
        ELSE IF a_kunr /\ ~b_kunr THEN "Less"
        ELSE IF ~a_kunr /\ b_kunr THEN "Greater"
        ELSE IF tokenizer /\ a_parsed = 1 /\ b_parsed > 0 THEN "Less"
        ELSE IF tokenizer /\ a_parsed > 1 /\ b_parsed = 0 THEN "Greater"
        ELSE IF a_prio > 0 /\ b_prio = 0 THEN "Less"
        ELSE IF b_prio > 0 /\ a_prio = 0 THEN "Greater"
        ELSE IF a.jlpt_lvl >= 0 /\ b.jlpt_lvl < 0 THEN "Less"
        ELSE IF a.jlpt_lvl < 0 /\ b.jlpt_lvl >= 0 THEN "Greater"
        ELSE IF a.jlpt_lvl >= 0 /\ b.jlpt_lvl >= 0
        THEN (IF a.jlpt_lvl > b.jlpt_lvl THEN "Less"
              ELSE IF a.jlpt_lvl < b.jlpt_lvl THEN "Greater" ELSE "Equal")
        ELSE "Equal"

RECURSIVE kuns_sort_by(_, _, _)
\* kuns.sort_by: each element is inserted behind the last one it is not
\* less than.  For a closure that is no total order the standard library
\* only promises some order of the elements; this is one of them
kuns_sort_by(kuns, clean_kuns, tokenizer) ==
    IF kuns = <<>> THEN <<>>
    ELSE LET n == Len(kuns)
             x == kuns[n]
             sorted == kuns_sort_by(SubSeq(kuns, 1, n - 1), clean_kuns, tokenizer)
             stay == {i \in 1..Len(sorted) : kuns_cmp(x, sorted[i], clean_kuns, tokenizer) # "Less"}
             k == IF stay = {} THEN 0 ELSE CHOOSE i \in stay : \A j \in stay : j <= i
         IN  SubSeq(sorted, 1, k) \o <<x>> \o SubSeq(sorted, k + 1, Len(sorted))

RECURSIVE group_by(_)
\* Itertools::group_by on the sequence id: the runs of consecutive rows
group_by(rows) ==
    IF rows = <<>> THEN <<>>
    ELSE LET run == CHOOSE k \in 1..Len(rows) :
                        /\ \A j \in 1..k : rows[j].sequence = rows[1].sequence
                        /\ k < Len(rows) => rows[k + 1].sequence # rows[1].sequence
         IN  <<SubSeq(rows, 1, run)>> \o group_by(SubSeq(rows, run + 1, Len(rows)))

\* mutant: every word with a kanji reading is taken
kun_of_group_any(literal, kun, val) ==
    LET kanji_r == SelectSeqBy(val, {i \in 1..Len(val) : val[i].kanji})
    IN  IF kanji_r = <<>> THEN <<>> ELSE <<kanji_r[1]>>

\* the body of the loop over the groups: the kanji row of a word that
\* matches a kun reading, <<>> for a word that is skipped; a word without a
\* kana row is not in the table (kana_r[0] would panic)
kun_of_group(literal, kun, val) ==
    LET kanji_r == SelectSeqBy(val, {i \in 1..Len(val) : val[i].kanji})
        kana_r == SelectSeqBy(val, {i \in 1..Len(val) : ~val[i].kanji})
        dict_kana == kana_r[1]
        dict_kanji == kanji_r[1]
    IN  IF kanji_r = <<>> THEN <<>>
        ELSE IF \E k \in 1..Len(kun) :
                    /\ kun_matches_kanji(literal, kun[k], dict_kana.reading, dict_kanji.reading)
                    /\ kun_len(kun[k]) <= Dict_len(dict_kana)
        THEN <<dict_kanji>>
        ELSE <<>>

\* get_kun_by_literal: the sequence ids returned and the cache afterwards
get_kun_by_literal(literal, kun, cache, tokenizer) ==
    LET seq_ids == [i \in 1..Len(SelectSeqBy(KunDict, {i \in 1..Len(KunDict) :
                                   KunDict[i].kanji /\ starts_with(KunDict[i].reading, literal)}))
                       |-> SelectSeqBy(KunDict, {j \in 1..Len(KunDict) :
                                   KunDict[j].kanji /\ starts_with(KunDict[j].reading, literal)})[i].sequence]
        hit == SelectSeqBy(seq_ids, {i \in 1..Len(seq_ids) : seq_ids[i] \in DOMAIN cache})
        cached == [i \in 1..Len(hit) |-> cache[hit[i]]]
        dicts == SelectSeqBy(KunDict, {i \in 1..Len(KunDict) :
                                          /\ KunDict[i].sequence \in Range(seq_ids)
                                          /\ KunDict[i].sequence \notin DOMAIN cache})
        last(s) == CHOOSE i \in 1..Len(dicts) :
                       dicts[i].sequence = s /\ \A j \in (i + 1)..Len(dicts) : dicts[j].sequence # s
        new_cache == [s \in DOMAIN cache \cup {dicts[i].sequence : i \in 1..Len(dicts)} |->
                         IF s \in DOMAIN cache THEN cache[s] ELSE dicts[last(s)]]
        groups == group_by(dicts \o cached)
        kuns == Flatten([g \in 1..Len(groups) |-> kun_of_group(literal, kun, groups[g])])
        clean_kuns == [i \in 1..Len(kun) |-> kun_literal_reading(kun[i])]
        sorted == IF Len(kuns) > 10 THEN Take(kuns_sort_by(kuns, clean_kuns, tokenizer), 10)
                  ELSE kuns
    IN  [ids |-> [i \in 1..Len(sorted) |-> sorted[i].sequence], cache |-> new_cache]

\* the candidates the closure of sort_by is called with
KunCandidates == SelectSeqBy(KunDict, {i \in 1..Len(KunDict) : KunDict[i].kanji})

KunInit ==
    /\ has_tokenizer \in BOOLEAN
    /\ dict_cache \in DictCaches
    /\ km = NotRun
    /\ gk = NotRun
    /\ kc = NotRun

KunCalled == km # NotRun \/ gk # NotRun \/ kc # NotRun

\* a call of kun_matches_kanji
KunMatchesKanji(literal, kun, kana_reading, kanji_reading) ==
    /\ ~KunCalled
    /\ km' = [literal |-> literal, kun |-> kun, kana_reading |-> kana_reading,
              kanji_reading |-> kanji_reading,
              res |-> kun_matches_kanji(literal, kun, kana_reading, kanji_reading)]
    /\ UNCHANGED <<has_tokenizer, dict_cache, gk, kc, notKunVars>>

\* a call of get_kun_by_literal with the kun readings of the kanji
GetKunByLiteral(literal) ==
    /\ ~KunCalled
    /\ LET r == get_kun_by_literal(literal, KunyomiOf(literal), dict_cache, has_tokenizer)
       IN  /\ gk' = [literal |-> literal, kun |-> KunyomiOf(literal), cache |-> dict_cache,
                     ids |-> r.ids]
           /\ dict_cache' = r.cache
    /\ UNCHANGED <<has_tokenizer, km, kc, notKunVars>>

\* the closure of sort_by is called on two candidates, in both orders
CompareKuns(i, j, literal) ==
    /\ ~KunCalled
    /\ LET clean_kuns == [k \in 1..Len(KunyomiOf(literal)) |->
                             kun_literal_reading(KunyomiOf(literal)[k])]
           a == KunCandidates[i]
           b == KunCandidates[j]
       IN  kc' = [a |-> a, b |-> b, clean_kuns |-> clean_kuns,
                  ab |-> kuns_cmp(a, b, clean_kuns, has_tokenizer),
                  ba |-> kuns_cmp(b, a, clean_kuns, has_tokenizer)]
    /\ UNCHANGED <<has_tokenizer, dict_cache, km, gk, notKunVars>>

KunNext ==
    \/ \E literal \in KanjiLiterals, kun \in KunReadings, kana_reading \in KanaReadings,
          kanji_reading \in KanjiReadings :
           KunMatchesKanji(literal, kun, kana_reading, kanji_reading)
    \/ \E literal \in {<<"K1">>, <<"K2">>} : GetKunByLiteral(literal)
    \/ \E i, j \in 1..Len(KunCandidates), literal \in {<<"K1">>, <<"K2">>} :
           CompareKuns(i, j, literal)


\* ------------------------------------------------------------ kanji cache
\* the tasks that kanji_look kanji up
KanjiTasks == {1, 2}

\* lookups started and updates made in one behaviour
MaxLookups == 2
MaxUpdates == 1

\* SharedCache::with_capacity
KanjiCacheCapacity == 10000

KanjiRow(id, literal, jlpt, kun_dicts) ==
    [id |-> id, literal |-> literal, jlpt |-> jlpt, kun_dicts |-> kun_dicts]

\* the kanji table at the start: id -> row; jlpt -1 and kun_dicts <<>> are NULL
KanjiTable ==
    [i \in {1, 2} |-> IF i = 1 THEN KanjiRow(1, "A", -1, <<>>) ELSE KanjiRow(2, "B", 5, <<>>)]

\* the lookups a task starts; literal C and id 3 are not in the table
KanjiLookups ==
    { [fn |-> "find_by_literal", keys |-> <<"A">>],
      [fn |-> "find_by_literal", keys |-> <<"C">>],
      [fn |-> "find_by_literals", keys |-> <<>>],
      [fn |-> "find_by_literals", keys |-> <<"A", "B">>],
      [fn |-> "find_by_literals", keys |-> <<"A", "C">>],
      [fn |-> "load_by_ids", keys |-> <<>>],
      [fn |-> "load_by_ids", keys |-> <<2, 1>>],
      [fn |-> "load_by_ids", keys |-> <<3>>] }

\* the key of a row a lookup asks for
KeyOf(fn, k) == IF fn = "load_by_ids" THEN k.id ELSE k.literal

\* the rows of a table or of the cache (id -> row), in the order of id
RECURSIVE RowsOf(_)
RowsOf(table) ==
    IF DOMAIN table = {} THEN <<>>
    ELSE LET i == CHOOSE x \in DOMAIN table : \A y \in DOMAIN table : x <= y
         IN  <<table[i]>> \o RowsOf([j \in DOMAIN table \ {i} |-> table[j]])

\* SharedCache::filter_values, SharedCache::get_values: the cached rows
\* with one of the keys
cached_values(cache, fn, keys) ==
    LET rows == RowsOf(cache)
    IN  SelectSeqBy(rows, {i \in 1..Len(rows) : KeyOf(fn, rows[i]) \in Range(keys)})

\* missing_literals, to_lookup: the keys without a cached row, in the order
\* of the request
missing_keys(fn, keys, cached) ==
    SelectSeqBy(keys, {i \in 1..Len(keys) :
                          \A j \in 1..Len(cached) : KeyOf(fn, cached[j]) # keys[i]})

\* mutant: the rows are not kept
extend_nothing(cache, rows) == cache

\* SharedCache::cache_set, SharedCache::extend: the rows are stored under
\* their id; the capacity is not reached
extend(cache, rows) ==
    [i \in DOMAIN cache \cup {rows[n].id : n \in 1..Len(rows)} |->
        IF \E n \in 1..Len(rows) : rows[n].id = i
        THEN rows[CHOOSE n \in 1..Len(rows) : rows[n].id = i]
        ELSE cache[i]]

\* the rows the database finds for the keys of a query
db_rows(table, fn, keys) ==
    LET rows == RowsOf(table)
    IN  SelectSeqBy(rows, {i \in 1..Len(rows) : KeyOf(fn, rows[i]) \in Range(keys)})

\* mutant: a default kanji stands in for the row that was not found
load_by_literal_or_default(rows) ==
    IF rows = <<>> THEN [kind |-> "ok", val |-> <<KanjiRow(0, "", -1, <<>>)>>]
    ELSE [kind |-> "ok", val |-> <<rows[1]>>]

\* load_by_literal: limit(1).get_result_async: the first row, NotFound
\* without one
load_by_literal(rows) ==
    IF rows = <<>> THEN [kind |-> "err", err |-> "NotFound"]
    ELSE [kind |-> "ok", val |-> <<rows[1]>>]

\* a task that is not in a lookup
NoLookup ==
    [pc |-> "idle", fn |-> "", keys |-> <<>>, cached |-> <<>>, queried |-> <<>>,
     answer |-> [kind |-> "none"], res |-> NotRun]

KanjiInit ==
    /\ kanji_db = KanjiTable
    /\ kanji_cache = <<>>
    /\ kanji_lock = 0
    /\ kanji_look = [p \in KanjiTasks |-> NoLookup]
    /\ done_log = <<>>
    /\ lookups = 0
    /\ updates = 0

\* the lookup of task p returns res; the log keeps the last two lookups
\* that returned, with the rows the table holds for the kanji returned
Returned(p, l, res) ==
    LET entry == [task |-> p, fn |-> l.fn, keys |-> l.keys, queried |-> l.queried,
                  res |-> res,
                  current |-> IF res.kind = "ok"
                              THEN [n \in 1..Len(res.val) |->
                                       IF res.val[n].id \in DOMAIN kanji_db
                                       THEN kanji_db[res.val[n].id] ELSE NoLookup]
                              ELSE <<>>]
        log == Append(done_log, entry)
    IN  /\ kanji_look' = [kanji_look EXCEPT ![p] = [l EXCEPT !.pc = "idle", !.res = res]]
        /\ done_log' = IF Len(log) > 2 THEN Tail(log) ELSE log

\* a task calls find_by_literal, find_by_literals or load_by_ids; the two
\* with a list return an empty list for an empty list, the others wait for
\* KANJICACHE_C.lock()
KanjiCall(p, op) ==
    /\ kanji_look[p].pc = "idle"
    /\ lookups < MaxLookups
    /\ lookups' = lookups + 1
    /\ LET l == [NoLookup EXCEPT !.fn = op.fn, !.keys = op.keys]
       IN  IF op.fn # "find_by_literal" /\ op.keys = <<>>
           THEN Returned(p, l, [kind |-> "ok", val |-> <<>>])
           ELSE /\ kanji_look' = [kanji_look EXCEPT ![p] = [l EXCEPT !.pc = "wait"]]
                /\ UNCHANGED done_log
    /\ UNCHANGED <<kanji_db, kanji_cache, kanji_lock, updates, notKanjiVars>>

\* the task gets the lock and reads the cache: it returns what is cached
\* when nothing is missing, and the guard is dropped; otherwise it sends the
\* query for the missing keys and awaits the answer, with the guard alive
KanjiLocked(p) ==
    /\ kanji_look[p].pc = "wait"
    /\ kanji_lock = 0
    /\ Cardinality(DOMAIN kanji_cache) <= KanjiCacheCapacity
    /\ LET cached == cached_values(kanji_cache, kanji_look[p].fn, kanji_look[p].keys)
           missing == missing_keys(kanji_look[p].fn, kanji_look[p].keys, cached)
           l == [kanji_look[p] EXCEPT !.cached = cached, !.queried = missing]
       IN  IF kanji_look[p].fn = "find_by_literal" /\ cached # <<>>
           THEN /\ Returned(p, l, [kind |-> "ok", val |-> <<cached[1]>>])
                /\ UNCHANGED <<kanji_lock, kanji_cache>>
           ELSE IF missing = <<>>
           THEN /\ Returned(p, l, [kind |-> "ok", val |-> cached])
                /\ kanji_cache' = extend(kanji_cache, <<>>)
                /\ UNCHANGED kanji_lock
           ELSE /\ kanji_look' = [kanji_look EXCEPT ![p] = [l EXCEPT !.pc = "query"]]
                /\ kanji_lock' = p
                /\ UNCHANGED <<kanji_cache, done_log>>
    /\ UNCHANGED <<kanji_db, lookups, updates, notKanjiVars>>

\* the database answers the query of task p, with the rows or with an
\* error; the lookup returns and the guard is dropped
KanjiAnswered(p, ok) ==
    /\ kanji_look[p].pc = "query"
    /\ LET rows == db_rows(kanji_db, kanji_look[p].fn, kanji_look[p].queried)
           l == [kanji_look[p] EXCEPT !.answer = IF ok THEN [kind |-> "rows", rows |-> rows]
                                                  ELSE [kind |-> "failed"]]
           one == load_by_literal(rows)
       IN  IF ~ok
           THEN /\ Returned(p, l, [kind |-> "err", err |-> "Db"])
                /\ UNCHANGED kanji_cache
           ELSE IF kanji_look[p].fn = "find_by_literal"
           THEN /\ Returned(p, l, one)
                /\ kanji_cache' = IF one.kind = "ok" THEN extend(kanji_cache, one.val)
                                  ELSE kanji_cache
           ELSE /\ kanji_cache' = extend(kanji_cache, rows)
                /\ Returned(p, l, [kind |-> "ok",
                                   val |-> IF kanji_look[p].fn = "find_by_literals"
                                           THEN kanji_look[p].cached \o rows
                                           ELSE rows \o kanji_look[p].cached])
    /\ kanji_lock' = 0
    /\ UNCHANGED <<kanji_db, lookups, updates, notKanjiVars>>

\* update_jlpt: the rows of the literal get the level, in the table
UpdateJlpt(l, level) ==
    /\ updates < MaxUpdates
    /\ updates' = updates + 1
    /\ kanji_db' = [i \in DOMAIN kanji_db |->
                       IF kanji_db[i].literal = l THEN [kanji_db[i] EXCEPT !.jlpt = level]
                       ELSE kanji_db[i]]
    /\ UNCHANGED <<kanji_cache, kanji_lock, kanji_look, done_log, lookups, notKanjiVars>>

\* update_kun_link: the row of the kanji gets its kun_dicts, in the table
UpdateKunLink(i, kun_dicts) ==
    /\ updates < MaxUpdates
    /\ updates' = updates + 1
    /\ kanji_db' = [kanji_db EXCEPT ![i].kun_dicts = kun_dicts]
    /\ UNCHANGED <<kanji_cache, kanji_lock, kanji_look, done_log, lookups, notKanjiVars>>

KanjiNext ==
    \/ \E p \in KanjiTasks, op \in KanjiLookups : KanjiCall(p, op)
    \/ \E p \in KanjiTasks : KanjiLocked(p)
    \/ \E p \in KanjiTasks, ok \in BOOLEAN : KanjiAnswered(p, ok)
    \/ UpdateJlpt("A", 4)
    \/ UpdateKunLink(1, <<101>>)

\* ------------------------------------------------------- specifications
\* the values a part of the system keeps while another part is checked
SearchIdle ==
    /\ queries = NewTask("a", NoLang).queries
    /\ vec_filter = "none"
    /\ res_filter = "none"
    /\ order = "none"
    /\ threshold = DefaultThreshold
    /\ limit = DefaultLimit
    /\ offset = 0
    /\ world = 1
    /\ found = NotRun
    /\ has_term_res = "not_called"

TagIdle ==
    /\ tag_inp = <<>>
    /\ parse_mode = "remove_tagged"
    /\ tag_out = NotRun
    /\ tag_out2 = NotRun

ParserIdle ==
    /\ token = <<"#">>
    /\ jlpt_res = NotRun
    /\ genki_res = NotRun
    /\ parse_res = NotRun

SuggestIdle ==
    /\ SUGGESTIONS = Unset
    /\ loads = 0
    /\ first_sources = 0
    /\ req = [r \in Requests |-> NewRequest(<<>>, "")]

LoadWordsIdle ==
    /\ lw_sequences = <<>>
    /\ lw_pc = "prepare"
    /\ lw_results = <<>>
    /\ lw_completed = <<>>
    /\ lw_out = NotRun

NativeIdle ==
    /\ nf_index = 0
    /\ nf_query = "a"
    /\ nf_limit = 0
    /\ nf_offset = 0
    /\ nf_store_ok = TRUE
    /\ nf_found = NotRun

KunIdle ==
    /\ has_tokenizer = FALSE
    /\ dict_cache = <<>>
    /\ km = NotRun
    /\ gk = NotRun
    /\ kc = NotRun

KanjiIdle ==
    /\ kanji_db = KanjiTable
    /\ kanji_cache = <<>>
    /\ kanji_lock = 0
    /\ kanji_look = [p \in KanjiTasks |-> NoLookup]
    /\ done_log = <<>>
    /\ lookups = 0
    /\ updates = 0

\* the parts added to the model after the first five
LaterIdle == NativeIdle /\ KunIdle /\ KanjiIdle

\* the search task
Init == SearchInit /\ TagIdle /\ ParserIdle /\ SuggestIdle /\ LoadWordsIdle
    /\ LaterIdle

Next == SearchNext

Spec == Init /\ [][Next]_vars

\* the tag extractor
TagSpecInit == TagInit /\ SearchIdle /\ ParserIdle /\ SuggestIdle /\ LoadWordsIdle
    /\ LaterIdle

TagSpec == TagSpecInit /\ [][TagNext]_vars

\* the tag parsers
ParserSpecInit == ParserInit /\ SearchIdle /\ TagIdle /\ SuggestIdle /\ LoadWordsIdle
    /\ LaterIdle

ParserSpec == ParserSpecInit /\ [][ParserNext]_vars

\* the suggestion endpoint and the registry
SuggestSpecInit == SuggestInit /\ SearchIdle /\ TagIdle /\ ParserIdle /\ LoadWordsIdle
    /\ LaterIdle

SuggestSpec == SuggestSpecInit /\ [][SuggestNext]_vars

\* the same, with a timer that does fire: the deadline of a pending request
\* passes unless get_suggestion returns first
SuggestLiveSpec == SuggestSpec /\ \A r \in Requests : WF_vars(Elapsed(r))

\* load_words
LoadWordsSpecInit == LoadWordsInit /\ SearchIdle /\ TagIdle /\ ParserIdle /\ SuggestIdle
    /\ LaterIdle

LoadWordsSpec == LoadWordsSpecInit /\ [][LoadWordsNext]_vars

\* the first five parts, idle
FirstIdle == SearchIdle /\ TagIdle /\ ParserIdle /\ SuggestIdle /\ LoadWordsIdle

\* the native word search
NativeSpecInit == NativeInit /\ FirstIdle /\ KunIdle /\ KanjiIdle

NativeSpec == NativeSpecInit /\ [][NativeNext]_vars

\* the kun readings
KunSpecInit == KunInit /\ FirstIdle /\ NativeIdle /\ KanjiIdle

KunSpec == KunSpecInit /\ [][KunNext]_vars

\* the kanji cache
KanjiSpecInit == KanjiInit /\ FirstIdle /\ NativeIdle /\ KunIdle

KanjiSpec == KanjiSpecInit /\ [][KanjiNext]_vars

\* the executor runs every task that can run, and the database answers
KanjiLiveSpec ==
    /\ KanjiSpec
    /\ \A p \in KanjiTasks : WF_vars(KanjiLocked(p))
    /\ \A p \in KanjiTasks : WF_vars(\E ok \in BOOLEAN : KanjiAnswered(p, ok))


\* ---------------------------------------------------------------- claims
\* the (aligned query, language, similarity) of every document of a queried
\* index that has the output of result item x
Origins(t, w, x) ==
    UNION {
        LET g == get_queries(t, w, i)
            docs == get_index(w, g.lang).docs
        IN  {[q |-> g.q, lang |-> g.lang, sim |-> similarity(docs[k].vec, g.vec)] :
                k \in {k \in 1..Len(docs) :
                          docs[k].some /\ x.item \in Range(docs[k].outs)}}
        : i \in {i \in 1..Len(t.queries) :
                    /\ get_queries(t, w, i).kind = "query"
                    /\ get_queries(t, w, i).lang = x.language} }

\* everything find() collects before deduplication, in task query order
RawItems(t, w) == Flatten(Collect(t, w, 1, <<>>).lists)

Unpaginated == offset = 0 /\ limit = DefaultLimit

AllIndexesLoaded ==
    \A i \in 1..Len(queries) : get_index(world, queries[i].lang).loaded

\* C1: find() returns the items at positions offset+1 .. offset+limit of a
\* ranking of the deduplicated candidates by relevance descending: at most
\* limit items, as many as the candidates allow, in non-increasing relevance,
\* each a candidate, none twice, and the item at position i of the page has
\* at most offset+i-1 candidates strictly above it and at least offset+i
\* candidates at or above it.
C1_PageIsSliceOfRanking ==
    found.kind = "ok" =>
        LET C == Range(Candidates(Task, world))
            n == Cardinality(C)
            it == found.items
        IN  /\ Len(it) <= limit
            /\ Len(it) = Min(limit, IF n > offset THEN n - offset ELSE 0)
            /\ \A i \in 1..(Len(it) - 1) : it[i].relevance >= it[i + 1].relevance
            /\ \A i \in 1..Len(it) :
                   /\ it[i] \in C
                   /\ \A j \in 1..Len(it) : it[j] = it[i] => j = i
                   /\ Cardinality({y \in C : y.relevance > it[i].relevance})
                          <= offset + i - 1
                   /\ Cardinality({y \in C : y.relevance >= it[i].relevance})
                          >= offset + i

\* C1 witness: a middle page (items before it and after it) that is full
C1_Witness ==
    /\ found.kind = "ok"
    /\ offset > 0
    /\ limit = 2
    /\ Len(found.items) = limit
    /\ found.total_items > offset + limit
    /\ found.items[1].relevance > found.items[2].relevance

\* C2: an output collected more than once appears once in the unpaginated
\* ranking, as the entry of its first occurrence in task query order (that
\* entry's score and language); no page holds an output twice.
C2_FirstOccurrenceKept ==
    found.kind = "ok" =>
        LET raw == RawItems(Task, world)
            it == found.items
        IN  /\ \A i, j \in 1..Len(it) : it[i].item = it[j].item => i = j
            /\ \A k \in 1..Len(it) :
                   \E i \in 1..Len(raw) :
                       /\ raw[i] = it[k]
                       /\ \A j \in 1..(i - 1) : raw[j].item # raw[i].item
            /\ Unpaginated =>
                   \A i \in 1..Len(raw) : \E k \in 1..Len(it) : it[k].item = raw[i].item

\* C2 witness: two query pairs gave the same output different scores and
\* languages, and the unpaginated result holds the first pair's entry
C2_Witness ==
    /\ found.kind = "ok"
    /\ Unpaginated
    /\ \E i, j \in 1..Len(RawItems(Task, world)) :
           LET raw == RawItems(Task, world)
           IN  /\ i < j
               /\ raw[i].item = raw[j].item
               /\ raw[i].relevance < raw[j].relevance
               /\ raw[i].language # raw[j].language
               /\ \E k \in 1..Len(found.items) : found.items[k] = raw[i]

\* C3: every returned item has, in the index of its language, a document with
\* that output whose similarity to a query vector of the task is strictly
\* above the threshold, with or without a custom order function.
C3_AboveThreshold ==
    found.kind = "ok" =>
        \A k \in 1..Len(found.items) :
            \E o \in Origins(Task, world, found.items[k]) : ~SimLeq(o.sim, threshold)

\* C3 witness: with a custom order function set, a document whose similarity
\* equals the threshold was scanned and its output is not in the full result
C3_Witness ==
    /\ found.kind = "ok"
    /\ Unpaginated
    /\ order = "custom"
    /\ res_filter = "none"
    /\ vec_filter = "none"
    /\ Len(found.items) > 0
    /\ \E x \in {ResultItem(4, 0, NoLang)} :
           /\ \E o \in Origins(Task, world, x) :
                  SimLeq(o.sim, threshold) /\ ~SimLeq(o.sim, threshold - 1)
           /\ \A k \in 1..Len(found.items) : found.items[k].item # x.item

\* C4 as claimed: without a custom order function the score is
\* round(similarity * 100); with one it is the function's value.
C4_ScoreIsRounded ==
    found.kind = "ok" =>
        \A k \in 1..Len(found.items) :
            \E o \in Origins(Task, world, found.items[k]) :
                /\ ~SimLeq(o.sim, threshold)
                /\ found.items[k].relevance =
                       IF order = "none" THEN RoundScore(o.sim)
                       ELSE CustomOrder(found.items[k].item, o.sim, o.q, o.lang)

\* C4 amended: without a custom order function the score is similarity * 100
\* truncated to an integer (floor); with one it is the value the function
\* returns for (output, similarity, aligned query string, language).
C4_ScoreIsTruncated ==
    found.kind = "ok" =>
        \A k \in 1..Len(found.items) :
            \E o \in Origins(Task, world, found.items[k]) :
                /\ ~SimLeq(o.sim, threshold)
                /\ found.items[k].relevance =
                       IF order = "none" THEN TruncScore(o.sim)
                       ELSE CustomOrder(found.items[k].item, o.sim, o.q, o.lang)

\* C4 witness: a default score where truncation and rounding differ
C4_Witness ==
    /\ found.kind = "ok"
    /\ order = "none"
    /\ \E k \in 1..Len(found.items) :
           \E o \in Origins(Task, world, found.items[k]) :
               /\ found.items[k].relevance = TruncScore(o.sim)
               /\ RoundScore(o.sim) = TruncScore(o.sim) + 1

\* C5: one query, no filters, no order function, offset 0, threshold 0.2,
\* limit >= 1, over an index whose only document has the query's vector and
\* one output: exactly that output is returned, with score 100.
C5_SingleIdenticalDocument ==
    LET index == get_index(world, queries[1].lang)
        g == get_queries(Task, world, 1)
    IN  (/\ found # NotRun
         /\ Len(queries) = 1
         /\ vec_filter = "none" /\ res_filter = "none" /\ order = "none"
         /\ offset = 0 /\ threshold = DefaultThreshold /\ limit >= 1
         /\ index.loaded
         /\ Len(index.docs) = 1
         /\ g.kind = "query"
         /\ index.docs[1].vec = g.vec
         /\ index.docs[1].some /\ Len(index.docs[1].outs) = 1)
        => /\ found.kind = "ok"
           /\ found.items = << ResultItem(index.docs[1].outs[1], 100, queries[1].lang) >>

\* C5 witness: that search ran with limit 1
C5_Witness ==
    /\ found.kind = "ok"
    /\ Len(queries) = 1
    /\ vec_filter = "none" /\ res_filter = "none" /\ order = "none"
    /\ offset = 0 /\ threshold = DefaultThreshold /\ limit = 1
    /\ Len(get_index(world, queries[1].lang).docs) = 1
    /\ get_index(world, queries[1].lang).docs[1].vec = get_queries(Task, world, 1).vec
    /\ Len(found.items) = 1

\* C6 as claimed: when the index of some pair's language is not loaded,
\* find() returns the error Unexpected.
C6_UnloadedIndexIsUnexpected ==
    (found # NotRun /\ ~AllIndexesLoaded) => found = [kind |-> "err", err |-> "Unexpected"]

\* C7: with every pair's index loaded, find() succeeds; the pairs without a
\* query vector are skipped and the result is what the task without them
\* returns; with no vector at all, or no candidate above the threshold, the
\* result is empty.
C7_NoVectorIsSkipped ==
    (found # NotRun /\ AllIndexesLoaded) =>
        LET withVec == {i \in 1..Len(queries) : get_queries(Task, world, i).kind = "query"}
            rest == [Task EXCEPT !.queries = SelectSeqBy(queries, withVec)]
        IN  /\ found.kind = "ok"
            /\ withVec # 1..Len(queries) => found \in find(rest, world)
            /\ withVec = {} => found.items = <<>> /\ found.total_items = 0
            /\ (\A i \in withVec :
                    LET g == get_queries(Task, world, i)
                        docs == get_index(world, g.lang).docs
                    IN  \A k \in 1..Len(docs) :
                            SimLeq(similarity(docs[k].vec, g.vec), threshold))
                   => found.items = <<>> /\ found.total_items = 0

\* C7 witness: a pair without a vector next to a pair that found something
C7_Witness ==
    /\ found.kind = "ok"
    /\ \E i \in 1..Len(queries) : get_queries(Task, world, i).kind = "skip"
    /\ Len(found.items) > 0

\* C8: has_term() is true exactly when some pair's index is loaded and has the
\* pair's query string as a term; an index that is not loaded counts as false;
\* the call changes no field of the task and no index.
C8_HasTerm ==
    /\ [](has_term_res # "not_called" =>
            /\ has_term_res \in {"true", "false"}
            /\ has_term_res = "true" <=>
                   \E i \in 1..Len(queries) :
                       /\ get_index(world, queries[i].lang).loaded
                       /\ queries[i].q \in DOMAIN get_index(world, queries[i].lang).terms)
    /\ [][has_term_res' # has_term_res => UNCHANGED <<taskVars, world, found>>]_vars

\* C8 witness: true although one pair's index is not loaded
C8_Witness ==
    /\ has_term_res = "true"
    /\ ~AllIndexesLoaded

\* the input without the tokens flagged should_remove, each with the space
\* that directly follows it in the input, right-trimmed
ExpectedText(inp, mode) ==
    LET ms == find_iter(inp)
        gone == UNION {
            IF parse_fn(mode, SubSeq(inp, ms[k].start + 1, ms[k].end)).remove
            THEN (ms[k].start + 1)..ms[k].end
                   \cup (IF ms[k].end < Len(inp) /\ inp[ms[k].end + 1] = " "
                         THEN {ms[k].end + 1} ELSE {})
            ELSE {} : k \in 1..Len(ms)}
    IN  trim_string_end(SelectSeqBy(inp, (1..Len(inp)) \ gone))

\* C9 as claimed: with a parse function that removes every token it tags,
\* extract_parse on the text extract_parse returned gives the same text and
\* no tag.
C9_Idempotent ==
    (parse_mode = "remove_tagged" /\ tag_out2 # NotRun) =>
        /\ tag_out2.kind = "ok"
        /\ tag_out2.text = tag_out.text
        /\ tag_out2.tags = <<>>

\* C10 as claimed: the returned text is the input without the tokens flagged
\* should_remove and the space directly after each, right-trimmed.
C10_TextIsInputWithoutTags ==
    (tag_out # NotRun /\ tag_out.kind = "ok") =>
        tag_out.text = ExpectedText(tag_inp, parse_mode)

\* the bytes of a token after its first k bytes are a decimal number
NumberFrom(t, k) ==
    Len(t) > k /\ \A i \in (k + 1)..Len(t) : t[i] \in Digits

\* that number
NumberValue(t, k) == DecimalValue(SubSeq(t, k + 1, Len(t)))

\* C11: for a token #n or #N followed by the decimal number N, parse_jlpt_tag
\* returns Jlpt(N) if 1 <= N <= 5 and None for every other N; it returns None
\* for every token whose second character is not n or N; parse returns the
\* same as parse_jlpt_tag for the tokens #n / #N followed by a number.
C11_JlptParser ==
    LET form == /\ starts_with(token, <<"#">>)
                /\ Len(token) >= 2 /\ token[2] \in {"n", "N"}
                /\ NumberFrom(token, 2)
        N == NumberValue(token, 2)
        expected == IF 1 <= N /\ N <= 5 THEN [tag |-> "Jlpt", nr |-> N] ELSE NoTag
    IN  /\ (jlpt_res # NotRun /\ form) => jlpt_res = expected
        /\ (jlpt_res # NotRun /\ (Len(token) < 2 \/ token[2] \notin {"n", "N"}))
               => jlpt_res = NoTag
        /\ (parse_res # NotRun /\ form) => parse_res = expected

\* C11 witness: #N5 was parsed by both, and gave level 5
C11_Witness ==
    /\ token = <<"#", "N", "5">>
    /\ jlpt_res = [tag |-> "Jlpt", nr |-> 5]
    /\ parse_res = jlpt_res

\* C12: for a token #genki, in any letter case, followed by the decimal
\* number N, parse_genki_tag returns GenkiLesson(N) if 3 <= N <= 23 and None
\* for every other N; it returns None for a token that does not start with
\* #genki.
C12_GenkiParser ==
    LET prefixed == /\ Len(token) >= 6
                    /\ to_lowercase(SubSeq(token, 1, 6)) = <<"#", "g", "e", "n", "k", "i">>
        N == NumberValue(token, 6)
    IN  genki_res # NotRun =>
            /\ (prefixed /\ NumberFrom(token, 6)) =>
                   genki_res = IF 3 <= N /\ N <= 23
                               THEN [tag |-> "GenkiLesson", nr |-> N] ELSE NoTag
            /\ ~prefixed => genki_res = NoTag

\* C12 witness: lesson 23 from a token in mixed case
C12_Witness ==
    /\ token = <<"#", "G", "e", "n", "K", "i", "2", "3">>
    /\ genki_res = [tag |-> "GenkiLesson", nr |-> 23]

\* the responses that carry suggestions
Answered(r) == req[r].resp # NotRun /\ req[r].resp.kind = "ok"

\* the query of the lookup that returned last
LastQuery(r) == req[r].lookups[Len(req[r].outcomes)]

\* C13: a suggestion response has at most 10 entries, for Japanese and for
\* foreign queries, after one lookup or after the katakana lookup; so has
\* the result of every lookup.
C13_AtMostTenEntries ==
    \A r \in Requests :
        /\ Answered(r) => Len(req[r].resp.suggestions) <= 10
        /\ \A k \in 1..Len(req[r].outcomes) :
               req[r].outcomes[k].kind = "ok" => Len(req[r].outcomes[k].suggestions) <= 10

\* C13 witness: a Japanese and a foreign response of 10 entries each, where
\* more than 10 rows of dict and more than 10 items of the registry match
C13_Witness ==
    \E r1, r2 \in Requests :
        /\ Answered(r1) /\ Answered(r2)
        /\ LastQuery(r1).language = "Japanese"
        /\ LastQuery(r2).language = "Foreign"
        /\ Len(req[r1].resp.suggestions) = 10
        /\ Len(req[r2].resp.suggestions) = 10
        /\ Cardinality({i \in 1..Len(Dict) :
                            starts_with(Dict[i].reading, LastQuery(r1).query)}) > 10
        /\ Cardinality({i \in 1..Len(SUGGESTIONS.map[LastQuery(r2).user_lang]) :
                            starts_with(SUGGESTIONS.map[LastQuery(r2).user_lang][i].text,
                                        LastQuery(r2).query)}) > 10

\* the entries of pairs with (yes) or without (~yes) the reading, in order
WithReading(pairs, reading, yes) ==
    SelectSeqBy(pairs, {i \in 1..Len(pairs) : has_reading(pairs[i], reading) = yes})

\* C14 as claimed: the entries with a field equal to the raw input of the
\* caller come first, and each of the two groups is in the order the lookup
\* produced it.
C14_RawQueryMatchesFirst ==
    \A r \in Requests :
        Answered(r) =>
            LET produced == req[r].word_pairs[Len(req[r].word_pairs)]
            IN  req[r].resp.suggestions =
                    WithReading(produced, req[r].input, TRUE)
                      \o WithReading(produced, req[r].input, FALSE)

\* C14 amended: the entries with a field equal to the query string of the
\* lookup that produced the response (the parsed query, or its katakana form
\* in the fallback lookup) come first, and each of the two groups is in the
\* order the lookup produced it.
C14_LookupQueryMatchesFirst ==
    \A r \in Requests :
        Answered(r) =>
            LET produced == req[r].word_pairs[Len(req[r].word_pairs)]
            IN  req[r].resp.suggestions =
                    WithReading(produced, LastQuery(r).query, TRUE)
                      \o WithReading(produced, LastQuery(r).query, FALSE)

\* C14 witness: a response of the katakana lookup whose exact match was
\* moved to the front
C14_Witness ==
    \E r \in Requests :
        /\ Answered(r)
        /\ Len(req[r].lookups) = 2
        /\ req[r].resp.suggestions # req[r].word_pairs[2]
        /\ has_reading(req[r].resp.suggestions[1], LastQuery(r).query)
        /\ ~has_reading(req[r].word_pairs[2][1], LastQuery(r).query)

\* C15: a second lookup is made exactly when the first returned Ok with no
\* suggestion for a pure hiragana query, and it is the lookup of the katakana
\* form; get_suggestion then returns what the second lookup returns; there is
\* no third lookup; a first result with suggestions, or an error, is returned
\* as it is.
C15_OneKatakanaRetry ==
    \A r \in Requests :
        LET q == req[r]
            first == q.outcomes[1]
            retry == /\ first.kind = "ok"
                     /\ first.suggestions = <<>>
                     /\ \A i \in 1..Len(q.lookups[1].query) : q.lookups[1].query[i] \in Hiragana
        IN  /\ Len(q.lookups) <= 2
            /\ Len(q.outcomes) <= Len(q.lookups)
            /\ Len(q.lookups) = 2 => Len(q.outcomes) >= 1
            /\ Len(q.outcomes) >= 1 =>
                   /\ Len(q.lookups) = 2 <=> retry
                   /\ retry => q.lookups[2] =
                          [q.lookups[1] EXCEPT !.query = to_katakana(q.lookups[1].query)]
                   /\ (~retry /\ ~q.elapsed) => q.pc = "done" /\ q.resp = first
            /\ (Len(q.outcomes) = 2 /\ ~q.elapsed) => q.pc = "done" /\ q.resp = q.outcomes[2]

\* C15 witness: the katakana lookup failed and its error was returned
C15_Witness ==
    \E r \in Requests :
        /\ Len(req[r].lookups) = 2
        /\ Len(req[r].outcomes) = 2
        /\ req[r].outcomes[2].kind = "err"
        /\ req[r].resp = req[r].outcomes[2]

\* C16: a request whose input has fewer than 1 or more than 37 characters is
\* answered BadRequest with the parser not called and no lookup started; for
\* an input of 1 to 37 characters the handler goes on to the parser, and
\* answers BadRequest only if the parser returns no query.
C16_LengthValidation ==
    \A r \in Requests :
        req[r].pc # "received" =>
            IF Len(req[r].input) < 1 \/ Len(req[r].input) > 37
            THEN /\ req[r].resp = BadRequest
                 /\ ~req[r].parsed
                 /\ req[r].lookups = <<>>
            ELSE /\ req[r].parsed
                 /\ req[r].lookups = <<>> <=> req[r].resp = BadRequest
                 /\ req[r].resp = BadRequest =>
                        ~QueryParser_parse(StripLastRoman(req[r].input),
                                           UserLang(req[r].lang)).some

\* C16 witness: 38 characters rejected, 37 characters looked up
C16_Witness ==
    \E r1, r2 \in Requests :
        /\ Len(req[r1].input) = 38 /\ req[r1].resp = BadRequest
        /\ Len(req[r2].input) = 37 /\ Answered(r2)

\* a request that passed the input validation and is waiting for a lookup
Waiting(r) == req[r].pc \in {"lookup1", "lookup2"}

\* C17: a request that is waiting for a lookup eventually completes; its
\* answer is Timeout exactly when the deadline passed before get_suggestion
\* returned, and else what the last lookup returned, so an error of a lookup
\* is answered as that error; once the deadline has passed the handler does
\* not wait any more.
C17_TimeoutOrOutcome ==
    /\ [](\A r \in Requests :
              LET q == req[r]
              IN  /\ q.resp = Timeout <=> q.elapsed
                  /\ q.elapsed => ~Waiting(r) /\ q.pc = "done"
                  /\ (q.pc = "done" /\ ~q.elapsed /\ q.outcomes # <<>>) =>
                         q.resp = q.outcomes[Len(q.outcomes)]
                  /\ \A k \in 1..Len(q.outcomes) : q.outcomes[k] # Timeout)
    /\ \A r \in Requests : Waiting(r) ~> (req[r].pc = "done")

\* C17 witness: one request ran into the deadline during its katakana
\* lookup, the other was answered the error of its lookup
C17_Witness ==
    \E r1, r2 \in Requests :
        /\ req[r1].elapsed
        /\ req[r1].resp = Timeout
        /\ Len(req[r1].lookups) = 2
        /\ Len(req[r1].outcomes) = 1
        /\ ~req[r2].elapsed
        /\ req[r2].pc = "done"
        /\ req[r2].outcomes # <<>>
        /\ req[r2].resp = [kind |-> "err", err |-> "Internal"]

\* the position of the last comma of a line, 0 without a comma
LastComma(text) ==
    LET commas == {i \in 1..Len(text) : text[i] = ","}
    IN  IF commas = {} THEN 0 ELSE CHOOSE i \in commas : \A j \in commas : j <= i

\* the field after the last comma of a line: the whole line without a comma
LastField(text) == SubSeq(text, LastComma(text) + 1, Len(text))

\* a field that is a decimal integer, with or without a sign
IsInteger(field) ==
    LET ds == IF field # <<>> /\ field[1] \in {"+", "-"} THEN Tail(field) ELSE field
    IN  ds # <<>> /\ \A i \in 1..Len(ds) : ds[i] \in Digits

\* a file with a line that cannot be read or whose last field is no integer
Malformed(file) ==
    \E i \in 1..Len(file.lines) :
        ~file.lines[i].ok \/ ~IsInteger(LastField(file.lines[i].text))

\* the directory the registry was initialised from
FirstSources == SuggestionSources[first_sources]

\* C18: in the registry load_suggestions has set, a language whose file has
\* a line that cannot be read, or a line whose last comma-separated field is
\* not an integer, has no entry, and the well-formed files of the other
\* languages are loaded; a loaded file gives one entry per line, in the order
\* of the lines, with the integer of the last field as sequence id and the
\* text before the last comma, inner commas included, as text.
C18_AllOrNothing ==
    SUGGESTIONS.set =>
        LET files == FirstSources.entries
            map == SUGGESTIONS.map
        IN  /\ ~FirstSources.readable => map = <<>>
            /\ \A f \in 1..Len(files) :
                   LET file == files[f]
                       lang == Language_from_str(file.name)
                       same == {g \in 1..Len(files) : Language_from_str(files[g].name) = lang}
                   IN  (lang # "Err" /\ same = {f}) =>
                           IF Malformed(file) THEN lang \notin DOMAIN map
                           ELSE /\ lang \in DOMAIN map
                                /\ Len(map[lang]) = Len(file.lines)
                                /\ \A i \in 1..Len(file.lines) :
                                       LET text == file.lines[i].text
                                           item == map[lang][i]
                                       IN  /\ item.sequence < 0 => LastField(text)[1] = "-"
                                           /\ item.sequence > 0 => LastField(text)[1] # "-"
                                           /\ DigitsOf(IF item.sequence < 0 THEN 0 - item.sequence
                                                       ELSE item.sequence)
                                                = SelectSeqBy(LastField(text),
                                                     {k \in 1..Len(LastField(text)) :
                                                          LastField(text)[k] \in Digits})
                                           /\ LastComma(text) > 0 =>
                                                  text = item.text \o <<",">> \o LastField(text)
                                           /\ LastComma(text) = 0 => item.text = <<>>

\* C18 witness: the registry holds the 13 lines of one language, one of them
\* with a comma inside its text, and nothing of the language whose file has
\* a line with a last field that is no integer
C18_Witness ==
    /\ SUGGESTIONS.set
    /\ first_sources = 1
    /\ DOMAIN SUGGESTIONS.map = {"en"}
    /\ Len(SUGGESTIONS.map["en"]) = 13
    /\ SUGGESTIONS.map["en"][6] = SuggestionItem(<<"t", ",", "a">>, 2)
    /\ \E f \in 1..Len(FirstSources.entries) :
           /\ FirstSources.entries[f].name = "de"
           /\ Malformed(FirstSources.entries[f])
           /\ ~Malformed([FirstSources.entries[f] EXCEPT !.lines = SubSeq(@, 1, 1)])

\* C19: once load_suggestions has set the registry, the registry is what the
\* first call built and no later call of load_suggestions changes it; no step
\* of a suggestion request changes the registry.
C19_SetAtMostOnce ==
    /\ [](loads > 0 => SUGGESTIONS = [set |-> TRUE, map |-> SuggestionMap(FirstSources)])
    /\ [][SUGGESTIONS.set => SUGGESTIONS' = SUGGESTIONS]_vars
    /\ [][req' # req => SUGGESTIONS' = SUGGESTIONS]_vars

\* C19 witness: load_suggestions was called a second time, and the registry
\* the first call built answered a request
C19_Witness ==
    /\ loads = 2
    /\ first_sources = 1
    /\ SUGGESTIONS.set
    /\ \E r \in Requests :
           /\ Answered(r)
           /\ LastQuery(r).language = "Foreign"
           /\ req[r].resp.suggestions # <<>>

\* the readings of the rows of a sequence that are kanji (TRUE) or not
ReadingsOf(sequence, kanji) ==
    {Dict[i].reading : i \in {i \in 1..Len(Dict) :
                                 /\ Dict[i].sequence = sequence
                                 /\ Dict[i].kanji = kanji
                                 /\ (Dict[i].is_main \/ ~Dict[i].kanji)}}

\* C20: when load_words returns pairs, every lookup gave rows and the pairs
\* are, in the order of the requested sequences and whatever order the
\* lookups finished in, one pair for each sequence that has a non-kanji
\* reading: a non-kanji reading of the sequence as primary and a kanji
\* reading of it as secondary if it has one; when a lookup failed, load_words
\* returns an error.
C20_RequestOrder ==
    /\ (lw_out # NotRun /\ lw_out.kind = "ok") =>
           LET kept == SelectSeqBy(lw_sequences,
                           {i \in 1..Len(lw_sequences) :
                                ReadingsOf(lw_sequences[i], FALSE) # {}})
           IN  /\ \A i \in 1..Len(lw_results) : lw_results[i].state = "ok"
               /\ Len(lw_out.pairs) = Len(kept)
               /\ \A k \in 1..Len(kept) :
                      LET pair == lw_out.pairs[k]
                      IN  /\ pair.primary \in ReadingsOf(kept[k], FALSE)
                          /\ IF ReadingsOf(kept[k], TRUE) = {} THEN pair.secondary = None
                             ELSE /\ pair.secondary.some
                                  /\ pair.secondary.val \in ReadingsOf(kept[k], TRUE)
    /\ (lw_pc = "done" /\ \E i \in 1..Len(lw_results) : lw_results[i].state = "err") =>
           lw_out = [kind |-> "err", err |-> "Internal"]

\* C20 witness: the lookups finished in the reverse of the requested order,
\* the sequence in the middle has no non-kanji reading, and the two pairs
\* are in the requested order
C20_Witness ==
    /\ lw_sequences = <<2, 4, 1>>
    /\ lw_completed = <<3, 2, 1>>
    /\ lw_out # NotRun
    /\ lw_out.kind = "ok"
    /\ lw_out.pairs = << WordPair(<<"ta", "be", "ru">>, Some(<<"K1", "be", "ru">>)),
                         WordPair(<<"ta", "be">>, Some(<<"K1", "be">>)) >>

\* C27 as claimed: extract_parse returns a result for every input and every
\* parse function, on the input and on the text it returned.
C27_AlwaysReturns ==
    /\ tag_out # NotRun => tag_out.kind = "ok"
    /\ tag_out2 # NotRun => tag_out2.kind = "ok"

\* C25: when INDEX is set and the query has a vector, a failure of the
\* vector store makes the native Find::find return the error NotFound; find
\* returns NotFound in no other case.
C25_StoreFailureIsNotFound ==
    nf_found # NotRun =>
        LET failed == /\ nf_index # 0
                      /\ gen_query(native_index(nf_index), nf_query).some
                      /\ ~nf_store_ok
        IN  nf_found = [kind |-> "err", err |-> "NotFound"] <=> failed

\* C25 witness: the store failed for a query that has documents when the
\* store answers
C25_Witness ==
    /\ nf_found = [kind |-> "err", err |-> "NotFound"]
    /\ nf_limit > 0
    /\ native_find(nf_index, nf_query, nf_limit, nf_offset, TRUE).items # <<>>

\* the sequence ids of the dict table
DictSequences == {Dict[i].sequence : i \in 1..Len(Dict)}

\* C28 as claimed: in a response to a Japanese query at most one entry
\* comes from each sequence id of dict.
C28_OneEntryPerSequence ==
    \A r \in Requests :
        (Answered(r) /\ LastQuery(r).language = "Japanese") =>
            \A id \in DictSequences :
                Cardinality({k \in 1..Len(req[r].resp.suggestions) :
                                 <<req[r].resp.suggestions[k]>> = word_pair_of(word_query(id))})
                    <= 1

\* C22: kun_matches_kanji is true whenever the kana reading starts with the
\* kun reading without its '-' and '.', and the kun reading ends in '-' or
\* the kanji reading starts with the literal
KunPrefixCase ==
    /\ km # NotRun
    /\ starts_with(km.kana_reading, SelectSeqBy(km.kun, {i \in 1..Len(km.kun) : km.kun[i] \notin {"-", "."}}))
    /\ \/ km.kun[Len(km.kun)] = "-"
       \/ km.kanji_reading[1] = km.literal[1]

C22_PrefixMatches == KunPrefixCase => km.res

\* C22 as the code has it: the same, for a kun reading that does not start
\* with '-'
C22_PrefixMatchesNoSuffixKun == (KunPrefixCase /\ km.kun[1] # "-") => km.res

C22_Witness ==
    /\ KunPrefixCase
    /\ km.res
    /\ km.literal = <<"K1">>
    /\ km.kun = <<"fu", "ru", "-">>
    /\ km.kana_reading = <<"fu", "ru", "i", "e">>
    /\ km.kanji_reading = <<"K1", "i", "i", "e">>

\* the first kana reading and the first kanji reading of a word of the table
CandidateKana(s) ==
    KunDict[CHOOSE i \in 1..Len(KunDict) :
                /\ KunDict[i].sequence = s /\ ~KunDict[i].kanji
                /\ \A j \in 1..(i - 1) : KunDict[j].sequence = s => KunDict[j].kanji].reading
CandidateKanji(s) ==
    KunDict[CHOOSE i \in 1..Len(KunDict) :
                /\ KunDict[i].sequence = s /\ KunDict[i].kanji
                /\ \A j \in 1..(i - 1) : KunDict[j].sequence = s => ~KunDict[j].kanji].reading
\* the kun readings of the call that the word matches
MatchedKuns(s) ==
    {k \in 1..Len(gk.kun) :
        kun_matches_kanji(gk.literal, gk.kun[k], CandidateKana(s), CandidateKanji(s))}
KunChars(kun) == Cardinality({i \in 1..Len(kun) : kun[i] \notin {"-", "."}})

\* C23: every sequence id get_kun_by_literal returns belongs to a word
\* that is not longer, in characters, than some kun reading it matches
C23_CandidateNotLonger ==
    gk # NotRun =>
        \A n \in 1..Len(gk.ids) : \E k \in MatchedKuns(gk.ids[n]) :
            /\ Len(CandidateKana(gk.ids[n])) <= Len(gk.kun[k])
            /\ Len(CandidateKanji(gk.ids[n])) <= Len(gk.kun[k])

\* C23 as the code has it: every sequence id returned belongs to a word
\* whose kana reading is matched by a kun reading that, without its '-'
\* and '.', is not longer than the kana reading
C23_KunNotLonger ==
    gk # NotRun =>
        \A n \in 1..Len(gk.ids) : \E k \in MatchedKuns(gk.ids[n]) :
            KunChars(gk.kun[k]) <= Len(CandidateKana(gk.ids[n]))

C23_Witness ==
    /\ gk # NotRun
    /\ gk.literal = <<"K1">>
    /\ Len(gk.ids) = 10
    /\ \E n \in 1..Len(gk.ids) : \A k \in 1..Len(gk.kun) :
           Len(CandidateKana(gk.ids[n])) > Len(gk.kun[k])

\* C24: for two candidates whose readings are no kun forms, the closure
\* of the sort puts the one with fewer morphemes first, gives Equal for
\* two candidates with the same number of morphemes that the later
\* criteria do not tell apart, and answers the two argument orders
\* consistently
SameLaterKeys(a, b) ==
    /\ (a.priorities > 0) = (b.priorities > 0)
    /\ a.jlpt_lvl = b.jlpt_lvl
C24_FewerMorphemesFirst ==
    (/\ kc # NotRun
     /\ \A i \in 1..Len(kc.clean_kuns) : kc.clean_kuns[i] \notin {kc.a.reading, kc.b.reading}) =>
        /\ MorphemesOf(kc.a.reading) < MorphemesOf(kc.b.reading) =>
               kc.ab = "Less" /\ kc.ba = "Greater"
        /\ (MorphemesOf(kc.a.reading) = MorphemesOf(kc.b.reading) /\ SameLaterKeys(kc.a, kc.b)) =>
               kc.ab = "Equal"
        /\ kc.ab = "Less" <=> kc.ba = "Greater"
        /\ kc.ab = "Equal" <=> kc.ba = "Equal"

\* C21: no task holds the lock of the kanji cache while its database query
\* is in flight
C21_NoLockDuringQuery ==
    \A p \in KanjiTasks : kanji_look[p].pc = "query" => kanji_lock # p

\* the requested keys without a row in the cache
Uncached(l) ==
    {k \in Range(l.keys) : \A i \in DOMAIN kanji_cache : KeyOf(l.fn, kanji_cache[i]) # k}
\* the requested keys with a row in the table
Stored(l) ==
    {k \in Range(l.keys) : \E i \in DOMAIN KanjiTable : KeyOf(l.fn, KanjiTable[i]) = k}
ListLookup(l) == l.fn \in {"find_by_literals", "load_by_ids"}

\* with the lock taken, a lookup by list queries exactly the requested keys
\* that are not cached, and none when all are cached
QueriesOnlyMisses ==
    \A p \in KanjiTasks :
        (kanji_look[p].pc = "wait" /\ kanji_look'[p].pc # "wait" /\ ListLookup(kanji_look[p])) =>
            /\ Range(kanji_look'[p].queried) = Uncached(kanji_look[p])
            /\ kanji_look'[p].pc = "query" <=> Uncached(kanji_look[p]) # {}
\* when the lock is released the rows of the answer are in the cache
WritesBack ==
    \A p \in KanjiTasks :
        (kanji_look[p].pc = "query" /\ kanji_lock = p /\ kanji_lock' # p
            /\ ListLookup(kanji_look[p]) /\ kanji_look'[p].res.kind = "ok") =>
            \A n \in 1..Len(kanji_look'[p].answer.rows) :
                /\ kanji_look'[p].answer.rows[n].id \in DOMAIN kanji_cache'
                /\ kanji_cache'[kanji_look'[p].answer.rows[n].id] = kanji_look'[p].answer.rows[n]
\* the second of two lookups of the same stored keys, one right after the
\* other, sends no query and returns the same kanji
SecondLookupCached ==
    (/\ Len(done_log) = 2
     /\ ListLookup(done_log[1])
     /\ done_log[1].fn = done_log[2].fn
     /\ done_log[1].keys = done_log[2].keys
     /\ done_log[1].res.kind = "ok"
     /\ Stored(done_log[1]) = Range(done_log[1].keys)) =>
        /\ done_log[2].queried = <<>>
        /\ done_log[2].res.kind = "ok"
        /\ Range(done_log[2].res.val) = Range(done_log[1].res.val)

\* C26: find_by_literals and load_by_ids query the storage only for the
\* requested keys that are not cached, the rows returned are in the cache
\* when the lock is released, and a second lookup of stored keys right
\* after the first sends no query and returns the same kanji
C26_OnlyMissesWrittenBack ==
    /\ [][QueriesOnlyMisses /\ WritesBack]_vars
    /\ []SecondLookupCached

C26_Witness ==
    /\ Len(done_log) = 2
    /\ done_log[1].fn = "find_by_literals"
    /\ done_log[2].fn = "find_by_literals"
    /\ done_log[1].keys = <<"A", "B">>
    /\ done_log[2].keys = <<"A", "B">>
    /\ done_log[1].queried # <<>>
    /\ done_log[1].res.kind = "ok"
    /\ done_log[2].queried = <<>>
    /\ Len(done_log[2].res.val) = 2

\* C29: the kanji a lookup returns are the rows the table holds for them
\* when it returns
C29_ReturnsCurrentRecord ==
    \A n \in 1..Len(done_log) :
        done_log[n].res.kind = "ok" => done_log[n].res.val = done_log[n].current

\* the query of task p is answered with nothing or with an error
NothingOrFailed(p) ==
    /\ kanji_look[p].pc = "query"
    /\ kanji_look'[p].pc = "idle"
    /\ kanji_look'[p].answer \in {[kind |-> "failed"], [kind |-> "rows", rows |-> <<>>]}
\* every lookup that waits for the lock gets it
WaitingProceeds ==
    \A p \in KanjiTasks : (kanji_look[p].pc = "wait") ~> (kanji_look[p].pc # "wait")

\* C30: when the query of a lookup fails or finds nothing the lookup
\* returns an error, the cache is what it was, the lock is free, and every
\* lookup that waits for the lock gets it
C30_ErrorOnFailureOrNothing ==
    /\ [][\A p \in KanjiTasks : NothingOrFailed(p) =>
              /\ kanji_look'[p].res.kind = "err"
              /\ kanji_cache' = kanji_cache
              /\ kanji_lock' = 0]_vars
    /\ WaitingProceeds

\* C30 as the code has it: the same, but a lookup by list whose query
\* finds nothing returns the cached kanji; only a failed query and
\* find_by_literal without a row return an error
C30_ErrorOnFailure ==
    /\ [][\A p \in KanjiTasks : NothingOrFailed(p) =>
              /\ IF kanji_look'[p].answer.kind = "failed"
                 THEN kanji_look'[p].res.kind = "err"
                 ELSE IF kanji_look[p].fn = "find_by_literal"
                 THEN kanji_look'[p].res = [kind |-> "err", err |-> "NotFound"]
                 ELSE kanji_look'[p].res = [kind |-> "ok", val |-> kanji_look[p].cached]
              /\ kanji_cache' = kanji_cache
              /\ kanji_lock' = 0]_vars
    /\ WaitingProceeds

C30_Witness ==
    \E p, q \in KanjiTasks :
        /\ kanji_look[p].pc = "idle"
        /\ kanji_look[p].res.kind = "err"
        /\ kanji_look[p].answer.kind = "failed"
        /\ kanji_look[q].pc = "query"
        /\ kanji_lock = q

====
